---- MODULE Spec2Model ----
(***************************************************************************)
(* wgconfd: a daemon that keeps the peer table of a WireGuard interface in *)
(* step with peer documents fetched from remote sources.                   *)
(*                                                                         *)
(* The module models                                                       *)
(*   - the prefix containment tests of model/ip.rs,                        *)
(*   - the config builder of manager/builder.rs,                           *)
(*   - Device::apply_diff of wg.rs together with the effect of the         *)
(*     `wg set` command line it assembles,                                 *)
(*   - the per-source Updater of manager/updater.rs,                       *)
(*   - Manager::new / Manager::update of manager/mod.rs and the driver     *)
(*     loop of main.rs.                                                    *)
(*                                                                         *)
(* Durations and instants are integer counts of the clock quantum (one     *)
(* second in the model); Duration division truncates, as in std::time.     *)
(* Option<T> is "none" for None where T is a string, and a sequence of     *)
(* length 0 or 1 otherwise.                                                *)
(***************************************************************************)
EXTENDS Integers, Sequences, FiniteSets, TLC

None == "none"

Min(a, b) == IF a <= b THEN a ELSE b

Max(a, b) == IF a >= b THEN a ELSE b

RECURSIVE Pow2(_)
Pow2(n) == IF n = 0 THEN 1 ELSE 2 * Pow2(n - 1)

(***************************************************************************)
(* Bounds of the model.                                                    *)
(***************************************************************************)
\* width of an address in bits (32 and 128 in the program)
BITS == 3
\* the monotonic clock stops advancing here
MaxTime == 8
\* longest time one external call (a fetch) may take
MaxFetchTime == 1
\* how many times the process may be started again after it was killed
\* or has exited
MaxRestarts == 1
\* how long the driver may oversleep past the wake instant
MaxOversleep == 1
\* how many calls of Updater::update a slot exercised on its own gets
MaxCalls == 7

(***************************************************************************)
(* Prefixes (model/ip.rs).  A prefix is [address, prefix_len]; the derived *)
(* order is lexicographic.                                                 *)
(***************************************************************************)
Host(a) == [address |-> a, prefix_len |-> BITS]

\* the prefix that leaves `h` host bits, starting at address a
Net(a, h) == [address |-> a, prefix_len |-> BITS - h]

NetLess(a, b) ==
    \/ a.address < b.address
    \/ a.address = b.address /\ a.prefix_len < b.prefix_len

NetContains(self, other) ==
    IF self.prefix_len > other.prefix_len THEN FALSE
    ELSE IF self.prefix_len = other.prefix_len THEN self.address = other.address
    ELSE IF self.prefix_len = 0 THEN TRUE
    ELSE LET shift == BITS - self.prefix_len
         IN  (self.address \div Pow2(shift)) = (other.address \div Pow2(shift))

\* Vec::binary_search on the sorted vector: found, or the insertion index
\* (0-based: the number of elements below net)
BinarySearch(nets, net) ==
    IF \E k \in 1..Len(nets) : nets[k] = net
    THEN [found |-> TRUE, idx |-> (CHOOSE k \in 1..Len(nets) : nets[k] = net) - 1]
    ELSE [found |-> FALSE,
          idx |-> Cardinality({k \in 1..Len(nets) : NetLess(nets[k], net)})]

\* a lookup that finds only the prefixes stored as they are
SetContains_exact(nets, net) == BinarySearch(nets, net).found

\* Ipv4Set::contains
SetContains(nets, net) ==
    LET r == BinarySearch(nets, net)
    IN  IF r.found THEN TRUE
        ELSE IF r.idx = 0 THEN FALSE
        ELSE NetContains(nets[r.idx], net)

(***************************************************************************)
(* Prefix sets (Ipv4Set, Ipv6Set).                                         *)
(***************************************************************************)
RECURSIVE Xor(_, _, _)
\* a ^ b on integers of n bits
Xor(a, b, n) ==
    IF n = 0 THEN 0
    ELSE ((a + b) % 2) + 2 * Xor(a \div 2, b \div 2, n - 1)

\* Ipv4Net::is_valid: the bits after the prefix are zero
is_valid(net) ==
    IF net.prefix_len > BITS THEN FALSE
    ELSE IF net.prefix_len = BITS THEN TRUE
    ELSE net.address % Pow2(BITS - net.prefix_len) = 0

\* Ipv4Set::siblings
siblings(a, b) ==
    IF b.prefix_len # a.prefix_len \/ a.prefix_len = 0 THEN FALSE
    ELSE Xor(a.address, b.address, BITS) = Pow2(BITS - a.prefix_len)

\* the loops of insert; i and j count elements as the indices of the vector
\* do: nets[i] here is self.nets[i - 1] there
\* absorbing every element that follows, contained or not
InsertAbsorb_greedy(v, net, j) == Len(v)

RECURSIVE InsertAbsorb(_, _, _)
InsertAbsorb(v, net, j) ==
    IF j < Len(v) /\ NetContains(net, v[j + 1])
    THEN InsertAbsorb(v, net, j + 1) ELSE j

RECURSIVE InsertMerge(_, _, _, _)
InsertMerge(v, net, i, j) ==
    IF j < Len(v) /\ siblings(net, v[j + 1])
    THEN InsertMerge(v, [net EXCEPT !.prefix_len = @ - 1], i, j + 1)
    ELSE IF i # 0 /\ siblings(v[i], net)
    THEN InsertMerge(v, [v[i] EXCEPT !.prefix_len = @ - 1], i - 1, j)
    ELSE [net |-> net, i |-> i, j |-> j]

\* an insert that leaves siblings side by side
insert_no_merge(v, net0) ==
    LET r == BinarySearch(v, net0)
    IN  IF r.found THEN v
        ELSE LET up == r.idx # 0 /\ NetContains(v[r.idx], net0)
                 net == IF up THEN v[r.idx] ELSE net0
                 i == IF up THEN r.idx - 1 ELSE r.idx
                 j == InsertAbsorb(v, net, r.idx)
             IN  SubSeq(v, 1, i) \o <<net>> \o SubSeq(v, j + 1, Len(v))

\* Ipv4Set::insert
insert(v, net0) ==
    LET r == BinarySearch(v, net0)
    IN  IF r.found THEN v
        ELSE LET up == r.idx # 0 /\ NetContains(v[r.idx], net0)
                 net == IF up THEN v[r.idx] ELSE net0
                 i == IF up THEN r.idx - 1 ELSE r.idx
                 j == InsertAbsorb(v, net, r.idx)
                 m == InsertMerge(v, net, i, j)
             IN  SubSeq(v, 1, m.i) \o <<m.net>> \o SubSeq(v, m.j + 1, Len(v))

\* FromIterator for Ipv4Set: the elements inserted one by one
RECURSIVE from_iter(_, _)
from_iter(v, it) ==
    IF it = <<>> THEN v ELSE from_iter(insert(v, Head(it)), Tail(it))

\* [T]::sort by the derived order
RECURSIVE SortInto(_, _)
SortInto(sorted, net) ==
    IF sorted = <<>> THEN <<net>>
    ELSE IF NetLess(net, Head(sorted)) THEN <<net>> \o sorted
    ELSE <<Head(sorted)>> \o SortInto(Tail(sorted), net)

RECURSIVE sort(_)
sort(v) == IF v = <<>> THEN <<>> ELSE SortInto(sort(Tail(v)), Head(v))

Front(v) == SubSeq(v, 1, Len(v) - 1)

\* the while loop of From<Vec>: out is s.nets[0..i]
RECURSIVE SweepMerge(_, _)
SweepMerge(out, net) ==
    IF out # <<>> /\ siblings(out[Len(out)], net)
    THEN SweepMerge(Front(out), [out[Len(out)] EXCEPT !.prefix_len = @ - 1])
    ELSE out \o <<net>>

\* the for loop of From<Vec> over the sorted vector
RECURSIVE Sweep(_, _)
Sweep(out, rest) ==
    IF rest = <<>> THEN out
    ELSE LET net0 == Head(rest)
             up == NetContains(out[Len(out)], net0)
         IN  Sweep(SweepMerge(IF up THEN Front(out) ELSE out,
                              IF up THEN out[Len(out)] ELSE net0),
                   Tail(rest))

\* a bulk construction that sweeps the vector in the order it came in
from_vec_unsorted(v) ==
    IF v = <<>> THEN <<>> ELSE Sweep(<<Head(v)>>, Tail(v))

\* From<Vec<Ipv4Net>> for Ipv4Set
from_vec(v) ==
    IF v = <<>> THEN <<>>
    ELSE Sweep(<<Head(sort(v))>>, Tail(sort(v)))

(***************************************************************************)
(* Partial maps (HashMap).                                                 *)
(***************************************************************************)

EmptyMap == [k \in {} |-> None]

MapPut(m, k, v) == [x \in (DOMAIN m) \cup {k} |-> IF x = k THEN v ELSE m[x]]

MapDel(m, k) == [x \in (DOMAIN m) \ {k} |-> m[x]]

(***************************************************************************)
(* Static configuration of the daemon (config.rs).                         *)
(***************************************************************************)
LocalKey == "KL"

Keys == {"KL", "K1", "K2"}

SourceNames == <<"a", "b">>

NSources == Len(SourceNames)

\* config::Source of each configured source
SourceConfig(name) ==
    IF name = "a"
    THEN [name |-> "a", url |-> "http://a", psk |-> "P1",
          ipv4 |-> <<Net(0, BITS - 1)>>, ipv6 |-> <<Net(0, 0)>>,
          required |-> FALSE, allow_road_warriors |-> TRUE]
    ELSE [name |-> "b", url |-> "http://b", psk |-> None,
          ipv4 |-> <<Net(0, BITS)>>, ipv6 |-> <<>>,
          required |-> TRUE, allow_road_warriors |-> FALSE]

\* config::GlobalConfig: the defaults of config.rs and no peer override
GlobalConfig ==
    [min_keepalive |-> 10, max_keepalive |-> 0, peers |-> EmptyMap]

fix_keepalive(gc, k0) ==
    LET k1 == IF gc.max_keepalive # 0 /\ (k0 = 0 \/ k0 > gc.max_keepalive)
              THEN gc.max_keepalive ELSE k0
    IN  IF k1 # 0 /\ k1 < gc.min_keepalive THEN gc.min_keepalive ELSE k1

(***************************************************************************)
(* Source documents (proto.rs).                                            *)
(***************************************************************************)
EmptyView == [servers |-> <<>>, road_warriors |-> <<>>]

\* proto::Source::empty
EmptySource == [config |-> EmptyView, next |-> <<>>]

Server(k, e, ka, v4, v6) ==
    [public_key |-> k, endpoint |-> e, keepalive |-> ka, ipv4 |-> v4, ipv6 |-> v6]

RoadWarrior(k, base, v4, v6) ==
    [public_key |-> k, base |-> base, keepalive |-> 0, ipv4 |-> v4, ipv6 |-> v6]

(***************************************************************************)
(* Config builder (manager/builder.rs).  The builder state is              *)
(* [c: model::Config (key -> Peer), err: Seq(Error)].                      *)
(***************************************************************************)
EmptyConfig == EmptyMap

BuilderNew == [c |-> EmptyConfig, err |-> <<>>]

Error(err, src, p, important) ==
    [src |-> src.config.name, peer |-> p.public_key,
     important |-> important, err |-> err]

\* a peer_contact that takes the record's keepalive as it is
peer_contact_unclamped(gc, src, p) ==
    LET r0 == [psk |-> src.config.psk, endpoint |-> None,
               keepalive |-> p.keepalive]
    IN  IF p.public_key \in DOMAIN gc.peers
        THEN LET pc0 == gc.peers[p.public_key]
             IN  IF pc0.source # None /\ pc0.source # src.config.name
                 THEN [ok |-> FALSE,
                       e |-> Error("peer source not allowed", src, p, TRUE)]
                 ELSE [ok |-> TRUE,
                       v |-> [endpoint |-> IF pc0.endpoint # None
                                           THEN pc0.endpoint ELSE r0.endpoint,
                              psk |-> IF pc0.psk # None THEN pc0.psk ELSE r0.psk,
                              keepalive |-> IF pc0.keepalive # <<>>
                                            THEN pc0.keepalive[1]
                                            ELSE r0.keepalive]]
        ELSE [ok |-> TRUE, v |-> r0]

\* a peer_contact that does not look at the source the operator names
peer_contact_any_source(gc, src, p) ==
    LET r0 == [psk |-> src.config.psk, endpoint |-> None,
               keepalive |-> fix_keepalive(gc, p.keepalive)]
    IN  IF p.public_key \in DOMAIN gc.peers
        THEN LET pc0 == gc.peers[p.public_key]
             IN  [ok |-> TRUE,
                  v |-> [endpoint |-> IF pc0.endpoint # None
                                      THEN pc0.endpoint ELSE r0.endpoint,
                         psk |-> IF pc0.psk # None THEN pc0.psk ELSE r0.psk,
                         keepalive |-> IF pc0.keepalive # <<>>
                                       THEN pc0.keepalive[1]
                                       ELSE r0.keepalive]]
        ELSE [ok |-> TRUE, v |-> r0]

\* a peer_contact in which the operator's endpoint and preshared key give
\* way to what the source brings
peer_contact_published_first(gc, src, p) ==
    LET r0 == [psk |-> src.config.psk, endpoint |-> None,
               keepalive |-> fix_keepalive(gc, p.keepalive)]
    IN  IF p.public_key \in DOMAIN gc.peers
        THEN LET pc0 == gc.peers[p.public_key]
             IN  IF pc0.source # None /\ pc0.source # src.config.name
                 THEN [ok |-> FALSE,
                       e |-> Error("peer source not allowed", src, p, TRUE)]
                 ELSE [ok |-> TRUE,
                       v |-> [endpoint |-> None,
                              psk |-> IF r0.psk # None THEN r0.psk ELSE pc0.psk,
                              keepalive |-> IF pc0.keepalive # <<>>
                                            THEN pc0.keepalive[1]
                                            ELSE r0.keepalive]]
        ELSE [ok |-> TRUE, v |-> r0]

\* Ok(contact) or Err(error)
peer_contact(gc, src, p) ==
    LET r0 == [psk |-> src.config.psk, endpoint |-> None,
               keepalive |-> fix_keepalive(gc, p.keepalive)]
    IN  IF p.public_key \in DOMAIN gc.peers
        THEN LET pc0 == gc.peers[p.public_key]
             IN  IF pc0.source # None /\ pc0.source # src.config.name
                 THEN [ok |-> FALSE,
                       e |-> Error("peer source not allowed", src, p, TRUE)]
                 ELSE [ok |-> TRUE,
                       v |-> [endpoint |-> IF pc0.endpoint # None
                                           THEN pc0.endpoint ELSE r0.endpoint,
                              psk |-> IF pc0.psk # None THEN pc0.psk ELSE r0.psk,
                              keepalive |-> IF pc0.keepalive # <<>>
                                            THEN pc0.keepalive[1]
                                            ELSE r0.keepalive]]
        ELSE [ok |-> TRUE, v |-> r0]

\* an insert_peer in which the later record takes the entry over
insert_peer_overwrites(b, src, p, contact) ==
    IF p.public_key \in DOMAIN b.c
    THEN [c |-> [b.c EXCEPT ![p.public_key].endpoint = contact.endpoint,
                            ![p.public_key].psk = contact.psk,
                            ![p.public_key].keepalive = contact.keepalive],
          err |-> Append(b.err, Error("duplicate public key", src, p, TRUE))]
    ELSE [b EXCEPT !.c = MapPut(@, p.public_key,
                                [endpoint |-> contact.endpoint,
                                 psk |-> contact.psk,
                                 keepalive |-> contact.keepalive,
                                 ipv4 |-> <<>>, ipv6 |-> <<>>])]

\* the builder after the entry for p.public_key exists
insert_peer(b, src, p, contact) ==
    IF p.public_key \in DOMAIN b.c
    THEN [b EXCEPT !.err = Append(@, Error("duplicate public key", src, p, TRUE))]
    ELSE [b EXCEPT !.c = MapPut(@, p.public_key,
                                [endpoint |-> contact.endpoint,
                                 psk |-> contact.psk,
                                 keepalive |-> contact.keepalive,
                                 ipv4 |-> <<>>, ipv6 |-> <<>>])]

RECURSIVE FilterNets(_, _)
FilterNets(allowed, nets) ==
    IF nets = <<>> THEN <<>>
    ELSE IF SetContains(allowed, Head(nets))
         THEN <<Head(nets)>> \o FilterNets(allowed, Tail(nets))
         ELSE FilterNets(allowed, Tail(nets))

\* an add_peer that appends every prefix of the record, allowed or not
add_peer_unfiltered(b, ent, src, p) ==
    [c |-> [b.c EXCEPT ![ent].ipv4 = @ \o p.ipv4, ![ent].ipv6 = @ \o p.ipv6],
     err |-> b.err]

\* an add_peer whose error is important whatever survived
add_peer_important(b, ent, src, p) ==
    LET v4 == FilterNets(src.config.ipv4, p.ipv4)
        v6 == FilterNets(src.config.ipv6, p.ipv6)
        added == Len(v4) + Len(v6) > 0
        removed == Len(v4) < Len(p.ipv4) \/ Len(v6) < Len(p.ipv6)
        c1 == [b.c EXCEPT ![ent].ipv4 = @ \o v4, ![ent].ipv6 = @ \o v6]
    IN  [c |-> c1,
         err |-> IF removed
                 THEN Append(b.err,
                             Error(IF added THEN "some IPs removed"
                                            ELSE "all IPs removed",
                                   src, p, TRUE))
                 ELSE b.err]

\* merges the prefixes of p into the entry under key `ent`
add_peer(b, ent, src, p) ==
    LET v4 == FilterNets(src.config.ipv4, p.ipv4)
        v6 == FilterNets(src.config.ipv6, p.ipv6)
        added == Len(v4) + Len(v6) > 0
        removed == Len(v4) < Len(p.ipv4) \/ Len(v6) < Len(p.ipv6)
        c1 == [b.c EXCEPT ![ent].ipv4 = @ \o v4, ![ent].ipv6 = @ \o v6]
    IN  [c |-> c1,
         err |-> IF removed
                 THEN Append(b.err,
                             Error(IF added THEN "some IPs removed"
                                            ELSE "all IPs removed",
                                   src, p, ~added))
                 ELSE b.err]

\* an add_server that does not look at the local public key
add_server_any_key(b, gc, public_key, src, p) ==
    LET pcr == peer_contact(gc, src, p)
    IN  IF ~pcr.ok THEN [b EXCEPT !.err = Append(@, pcr.e)]
        ELSE LET contact == IF pcr.v.endpoint = None
                            THEN [pcr.v EXCEPT !.endpoint = p.endpoint]
                            ELSE pcr.v
             IN  add_peer(insert_peer(b, src, p, contact), p.public_key, src, p)

add_server(b, gc, public_key, src, p) ==
    LET pcr == peer_contact(gc, src, p)
    IN  IF ~pcr.ok THEN [b EXCEPT !.err = Append(@, pcr.e)]
        ELSE LET contact == IF pcr.v.endpoint = None
                            THEN [pcr.v EXCEPT !.endpoint = p.endpoint]
                            ELSE pcr.v
             IN  IF p.public_key = public_key THEN b
                 ELSE add_peer(insert_peer(b, src, p, contact),
                               p.public_key, src, p)

\* an add_road_warrior that does not look at the record's own key
add_road_warrior_any_key(b, gc, public_key, src, p) ==
    LET pcr == peer_contact(gc, src, p)
    IN  IF ~pcr.ok THEN [b EXCEPT !.err = Append(@, pcr.e)]
        ELSE IF p.base = public_key
        THEN IF ~src.config.allow_road_warriors
             THEN [b EXCEPT !.err = Append(@,
                      Error("road warriors from this source not allowed",
                            src, p, TRUE))]
             ELSE add_peer(insert_peer(b, src, p, pcr.v), p.public_key, src, p)
        ELSE IF p.base \in DOMAIN b.c
        THEN add_peer(b, p.base, src, p)
        ELSE [b EXCEPT !.err = Append(@, Error("unknown base peer", src, p, TRUE))]

\* an add_road_warrior that merges into no base: every base but the local
\* key is unknown to it
add_road_warrior_no_merge(b, gc, public_key, src, p) ==
    LET pcr == peer_contact(gc, src, p)
    IN  IF ~pcr.ok THEN [b EXCEPT !.err = Append(@, pcr.e)]
        ELSE IF p.public_key = public_key
        THEN [b EXCEPT !.err = Append(@,
                  Error("the local peer cannot be a road warrior", src, p, TRUE))]
        ELSE IF p.base = public_key
        THEN IF ~src.config.allow_road_warriors
             THEN [b EXCEPT !.err = Append(@,
                      Error("road warriors from this source not allowed",
                            src, p, TRUE))]
             ELSE add_peer(insert_peer(b, src, p, pcr.v), p.public_key, src, p)
        ELSE [b EXCEPT !.err = Append(@, Error("unknown base peer", src, p, TRUE))]

add_road_warrior(b, gc, public_key, src, p) ==
    LET pcr == peer_contact(gc, src, p)
    IN  IF ~pcr.ok THEN [b EXCEPT !.err = Append(@, pcr.e)]
        ELSE IF p.public_key = public_key
        THEN [b EXCEPT !.err = Append(@,
                  Error("the local peer cannot be a road warrior", src, p, TRUE))]
        ELSE IF p.base = public_key
        THEN IF ~src.config.allow_road_warriors
             THEN [b EXCEPT !.err = Append(@,
                      Error("road warriors from this source not allowed",
                            src, p, TRUE))]
             ELSE add_peer(insert_peer(b, src, p, pcr.v), p.public_key, src, p)
        ELSE IF p.base \in DOMAIN b.c
        THEN add_peer(b, p.base, src, p)
        ELSE [b EXCEPT !.err = Append(@, Error("unknown base peer", src, p, TRUE))]

(***************************************************************************)
(* Manager::make_config (manager/mod.rs).  A slot is the manager's Source  *)
(* struct: [config, data, next_update, backoff].                           *)
(***************************************************************************)
\* Duration::from_secs(1 << 20), the horizon of t_cfg
FarFuture == 1048576

HasNext(src) == src.data.next # <<>>

\* a make_config that never leaves the `current` view
SelectView_current(src, ts) == src.data.config

\* the view make_config selects for a slot at wall-clock time ts
SelectView(src, ts) ==
    IF HasNext(src) /\ ts >= src.data.next[1].update_at
    THEN src.data.next[1].config
    ELSE src.data.config

RECURSIVE ConfigTime(_, _, _)
ConfigTime(sources, ts, t_cfg) ==
    IF sources = <<>> THEN t_cfg
    ELSE LET src == Head(sources)
         IN  ConfigTime(Tail(sources), ts,
                        IF HasNext(src) /\ ~(ts >= src.data.next[1].update_at)
                        THEN Min(t_cfg, src.data.next[1].update_at)
                        ELSE t_cfg)

RECURSIVE AddServers(_, _, _, _, _)
AddServers(b, gc, public_key, src, servers) ==
    IF servers = <<>> THEN b
    ELSE AddServers(add_server(b, gc, public_key, src, Head(servers)),
                    gc, public_key, src, Tail(servers))

RECURSIVE AddRoadWarriors(_, _, _, _, _)
AddRoadWarriors(b, gc, public_key, src, rws) ==
    IF rws = <<>> THEN b
    ELSE AddRoadWarriors(add_road_warrior(b, gc, public_key, src, Head(rws)),
                         gc, public_key, src, Tail(rws))

RECURSIVE PassServers(_, _, _, _, _)
PassServers(b, gc, public_key, sources, ts) ==
    IF sources = <<>> THEN b
    ELSE PassServers(AddServers(b, gc, public_key, Head(sources),
                                SelectView(Head(sources), ts).servers),
                     gc, public_key, Tail(sources), ts)

RECURSIVE PassRoadWarriors(_, _, _, _, _)
PassRoadWarriors(b, gc, public_key, sources, ts) ==
    IF sources = <<>> THEN b
    ELSE PassRoadWarriors(AddRoadWarriors(b, gc, public_key, Head(sources),
                                SelectView(Head(sources), ts).road_warriors),
                          gc, public_key, Tail(sources), ts)

make_config(sources, gc, public_key, ts) ==
    LET b1 == PassServers(BuilderNew, gc, public_key, sources, ts)
        b2 == PassRoadWarriors(b1, gc, public_key, sources, ts)
    IN  [cfg |-> b2.c, errs |-> b2.err,
         t_cfg |-> ConfigTime(sources, ts, ts + FarFuture)]

(***************************************************************************)
(* Device::apply_diff (wg.rs) and the `wg set` command line it assembles.  *)
(* The command is [args: Seq(group), stdin: Seq(line)]; a group is what    *)
(* follows one `peer K`: remove, or the options that were emitted          *)
(* (endpoint: "none" when not emitted; psk: whether `preshared-key         *)
(* /dev/stdin` was emitted; keepalive, allowed: empty when not emitted).   *)
(***************************************************************************)
\* the order in which a map's keys are visited
KeyOrder == <<"KL", "K1", "K2", "K3">>

RECURSIVE KeysIn(_, _)
KeysIn(m, order) ==
    IF order = <<>> THEN <<>>
    ELSE IF Head(order) \in DOMAIN m
         THEN <<Head(order)>> \o KeysIn(m, Tail(order))
         ELSE KeysIn(m, Tail(order))

RECURSIVE TagNets(_, _)
TagNets(fam, nets) ==
    IF nets = <<>> THEN <<>>
    ELSE <<[fam |-> fam, net |-> Head(nets)]>> \o TagNets(fam, Tail(nets))

\* the comma-joined allowed-ips argument: v4 prefixes, then v6 prefixes
JoinIps(conf) == TagNets("v4", conf.ipv4) \o TagNets("v6", conf.ipv6)

\* the group has a preshared-key option that names /dev/stdin as the file
ReadsStdin(g) == g.psk = <<"/dev/stdin">>

\* a group that names the key file for every peer, with a key or without
PeerGroup_psk_always(pubkey, old, conf) ==
    [peer |-> pubkey, remove |-> FALSE,
     endpoint |-> conf.endpoint,
     psk |-> <<"/dev/stdin">>,
     keepalive |-> <<>>,
     allowed |-> <<JoinIps(conf)>>]

\* an argument group that hands the preshared key over on the command line
PeerGroup_psk_in_argv(pubkey, old, conf) ==
    LET old_endpoint == IF pubkey \in DOMAIN old THEN old[pubkey].endpoint ELSE None
    IN  [peer |-> pubkey, remove |-> FALSE,
         endpoint |-> IF old_endpoint # conf.endpoint THEN conf.endpoint ELSE None,
         psk |-> IF conf.psk # None THEN <<conf.psk>> ELSE <<>>,
         keepalive |-> <<>>,
         allowed |-> <<JoinIps(conf)>>]

\* the argument group of one changed or new peer
PeerGroup(pubkey, old, conf) ==
    LET old_endpoint == IF pubkey \in DOMAIN old THEN old[pubkey].endpoint ELSE None
    IN  [peer |-> pubkey, remove |-> FALSE,
         endpoint |-> IF old_endpoint # conf.endpoint THEN conf.endpoint ELSE None,
         psk |-> IF conf.psk # None THEN <<"/dev/stdin">> ELSE <<>>,
         keepalive |-> <<>>,
         allowed |-> <<JoinIps(conf)>>]

RemoveGroup(pubkey) ==
    [peer |-> pubkey, remove |-> TRUE, endpoint |-> None, psk |-> <<>>,
     keepalive |-> <<>>, allowed |-> <<>>]

RECURSIVE DiffChanged(_, _, _)
DiffChanged(old, new, keys) ==
    IF keys = <<>> THEN [args |-> <<>>, stdin |-> <<>>]
    ELSE LET k == Head(keys)
             rest == DiffChanged(old, new, Tail(keys))
         IN  IF k \in DOMAIN old /\ old[k] = new[k] THEN rest
             ELSE [args |-> <<PeerGroup(k, old, new[k])>> \o rest.args,
                   stdin |-> (IF new[k].psk # None THEN <<new[k].psk>> ELSE <<>>)
                             \o rest.stdin]

RECURSIVE DiffRemoved(_, _, _)
DiffRemoved(old, new, keys) ==
    IF keys = <<>> THEN <<>>
    ELSE IF Head(keys) \in DOMAIN new THEN DiffRemoved(old, new, Tail(keys))
         ELSE <<RemoveGroup(Head(keys))>> \o DiffRemoved(old, new, Tail(keys))

\* an apply_diff that gives every peer of `new` an argument group, changed
\* or not
apply_diff_every_peer(old, new) ==
    LET ch == DiffChanged(EmptyMap, new, KeysIn(new, KeyOrder))
    IN  [args |-> ch.args \o DiffRemoved(old, new, KeysIn(old, KeyOrder)),
         stdin |-> ch.stdin,
         spawn |-> TRUE]

\* an apply_diff that removes every peer `old` had
apply_diff_removes_old(old, new) ==
    LET ch == DiffChanged(old, new, KeysIn(new, KeyOrder))
    IN  [args |-> ch.args \o DiffRemoved(old, EmptyMap, KeysIn(old, KeyOrder)),
         stdin |-> ch.stdin,
         spawn |-> TRUE]

\* the command apply_diff assembles; `spawn` tells whether it goes on to
\* run it, which wg.rs does whatever the arguments are
apply_diff(old, new) ==
    LET ch == DiffChanged(old, new, KeysIn(new, KeyOrder))
    IN  [args |-> ch.args \o DiffRemoved(old, new, KeysIn(old, KeyOrder)),
         stdin |-> ch.stdin,
         spawn |-> TRUE]

\* one word of the command line: a string, a number written out, or the
\* comma-joined list of prefixes
Word(w) == [kind |-> "word", v |-> w]

Number(n) == [kind |-> "number", v |-> n]

Ips(l) == [kind |-> "ips", v |-> l]

\* the words one argument group puts on the command line
GroupArgv(g) ==
    IF g.remove THEN <<Word("peer"), Word(g.peer), Word("remove")>>
    ELSE <<Word("peer"), Word(g.peer)>>
         \o (IF g.endpoint # None
             THEN <<Word("endpoint"), Word(g.endpoint)>> ELSE <<>>)
         \o (IF g.psk # <<>>
             THEN <<Word("preshared-key"), Word(g.psk[1])>> ELSE <<>>)
         \o (IF g.keepalive # <<>>
             THEN <<Word("persistent-keepalive"), Number(g.keepalive[1])>>
             ELSE <<>>)
         \o (IF g.allowed # <<>>
             THEN <<Word("allowed-ips"), Ips(g.allowed[1])>> ELSE <<>>)

RECURSIVE GroupsArgv(_)
GroupsArgv(args) ==
    IF args = <<>> THEN <<>>
    ELSE GroupArgv(Head(args)) \o GroupsArgv(Tail(args))

IfName == "wg0"

\* the argument vector of the command: `set IFNAME` and the groups
Argv(args) == <<Word("set"), Word(IfName)>> \o GroupsArgv(args)

RECURSIVE NetsOf(_, _)
NetsOf(fam, ips) ==
    IF ips = <<>> THEN <<>>
    ELSE IF Head(ips).fam = fam THEN <<Head(ips).net>> \o NetsOf(fam, Tail(ips))
         ELSE NetsOf(fam, Tail(ips))

NewPeer ==
    [endpoint |-> None, psk |-> None, keepalive |-> 0, ipv4 |-> <<>>, ipv6 |-> <<>>]

\* the effect of one argument group on the interface's peer table; `line`
\* is the stdin line a preshared-key option reads ("" clears the key)
WgGroup(dev, g, line) ==
    IF g.remove THEN MapDel(dev, g.peer)
    ELSE LET p0 == IF g.peer \in DOMAIN dev THEN dev[g.peer] ELSE NewPeer
             p1 == IF g.endpoint # None THEN [p0 EXCEPT !.endpoint = g.endpoint] ELSE p0
             p2 == IF ReadsStdin(g) THEN [p1 EXCEPT !.psk = IF line = "" THEN None ELSE line]
                   ELSE p1
             p3 == IF g.keepalive # <<>> THEN [p2 EXCEPT !.keepalive = g.keepalive[1]]
                   ELSE p2
             p4 == IF g.allowed # <<>>
                   THEN [p3 EXCEPT !.ipv4 = NetsOf("v4", g.allowed[1]),
                                   !.ipv6 = NetsOf("v6", g.allowed[1])]
                   ELSE p3
         IN  MapPut(dev, g.peer, p4)

\* the peer table after `wg set IFNAME <args>` has read `stdin`
RECURSIVE WgSet(_, _, _)
WgSet(dev, args, stdin) ==
    IF args = <<>> THEN dev
    ELSE LET g == Head(args)
             line == IF ReadsStdin(g) /\ stdin # <<>> THEN Head(stdin) ELSE ""
         IN  WgSet(WgGroup(dev, g, line), Tail(args),
                   IF ReadsStdin(g) /\ stdin # <<>> THEN Tail(stdin) ELSE stdin)

(***************************************************************************)
(* serde_json of model::Config (model.rs): the JSON text is an object, a   *)
(* list of members <<key, peer>>; reading it folds the members back into a *)
(* map.                                                                    *)
(***************************************************************************)
RECURSIVE Members(_, _)
Members(c, keys) ==
    IF keys = <<>> THEN <<>>
    ELSE <<[key |-> Head(keys), peer |-> c[Head(keys)]]>> \o Members(c, Tail(keys))

\* a file is [kind: "missing" | "garbage" | "json", json: the text]
Missing == [kind |-> "missing"]

Garbage == [kind |-> "garbage"]

to_vec(c) == [kind |-> "json", json |-> Members(c, KeysIn(c, KeyOrder))]

RECURSIVE FromMembers(_)
FromMembers(ms) ==
    IF ms = <<>> THEN EmptyMap
    ELSE MapPut(FromMembers(SubSeq(ms, 1, Len(ms) - 1)),
                ms[Len(ms)].key, ms[Len(ms)].peer)

\* Ok(config) or Err: the file's bytes are JSON text or not
deserialize(data) ==
    IF data.kind = "json" THEN [ok |-> TRUE, v |-> FromMembers(data.json)]
    ELSE [ok |-> FALSE]

(***************************************************************************)
(* serde_json of proto::Source through SourceRepr (proto.rs): the `next`   *)
(* pair is flattened into one object beside servers and road_warriors.     *)
(***************************************************************************)
SourceRepr(v) ==
    [servers |-> v.config.servers, road_warriors |-> v.config.road_warriors,
     next |-> IF v.next = <<>> THEN <<>>
              ELSE <<[servers |-> v.next[1].config.servers,
                      road_warriors |-> v.next[1].config.road_warriors,
                      update_at |-> v.next[1].update_at]>>]

SourceFromRepr(r) ==
    [config |-> [servers |-> r.servers, road_warriors |-> r.road_warriors],
     next |-> IF r.next = <<>> THEN <<>>
              ELSE <<[update_at |-> r.next[1].update_at,
                      config |-> [servers |-> r.next[1].servers,
                                  road_warriors |-> r.next[1].road_warriors]]>>]

source_to_vec(v) == [kind |-> "json", json |-> SourceRepr(v)]

source_deserialize(data) ==
    IF data.kind = "json" THEN [ok |-> TRUE, v |-> SourceFromRepr(data.json)]
    ELSE [ok |-> FALSE]

(***************************************************************************)
(* Updater (manager/updater.rs).                                           *)
(***************************************************************************)
\* UpdaterConfig::cache_directory and Manager::state_directory
cache_directory == <<"cache">>

state_directory == <<"run">>

\* the outcome of fetch_source: Err, or Ok(document)
Doc1 ==
    [config |-> [servers |-> <<Server("K1", "E1", 25, <<Host(1)>>, <<>>)>>,
                 road_warriors |-> <<>>],
     next |-> <<>>]

Doc2 ==
    [config |-> [servers |-> <<Server("K2", "E2", 0,
                                      <<Host(2), Host(Pow2(BITS) - 1)>>, <<Host(0)>>)>>,
                 road_warriors |-> <<RoadWarrior("K1", "KL", <<Host(1)>>, <<>>)>>],
     next |-> <<>>]

\* SystemTime::now() when the monotonic clock reads t
SystemTimeAt(t) == t + 100

Doc3 ==
    [config |-> Doc1.config,
     next |-> <<[update_at |-> SystemTimeAt(5),
                 config |-> [servers |-> <<Server("K1", "E2", 5, <<Host(1)>>, <<>>)>>,
                             road_warriors |->
                                 <<RoadWarrior("K2", "K1", <<Host(3)>>, <<>>)>>]]>>]

FetchDocs == <<Doc1, Doc2, Doc3>>

FetchResults ==
    {[ok |-> FALSE]} \cup {[ok |-> TRUE, doc |-> FetchDocs[i]] : i \in 1..Len(FetchDocs)}

\* Manager::add_source: the slot before init_source
NewSlot(name, now) ==
    [config |-> SourceConfig(name), data |-> EmptySource,
     next_update |-> now, backoff |-> <<>>]

\* an update() that drops the slot's document when the fetch fails
Updater_update_drops(src, r, t0, d, R) ==
    LET now == t0 + d
    IN  IF r.ok
        THEN [src |-> [src EXCEPT !.data = r.doc, !.backoff = <<>>,
                                  !.next_update = now + R],
              ok |-> TRUE, now |-> now]
        ELSE LET b == IF src.backoff # <<>> THEN src.backoff[1]
                      ELSE Min(10, R \div 10)
             IN  [src |-> [src EXCEPT !.data = EmptySource,
                                      !.next_update = now + b,
                                      !.backoff = <<Min(b + b \div 3, R \div 3)>>],
                  ok |-> FALSE, now |-> now]

\* an update() that samples `now` before the fetch
Updater_update_early(src, r, t0, d, R) ==
    LET now == t0
    IN  IF r.ok
        THEN [src |-> [src EXCEPT !.data = r.doc, !.backoff = <<>>,
                                  !.next_update = now + R],
              ok |-> TRUE, now |-> now]
        ELSE LET b == IF src.backoff # <<>> THEN src.backoff[1]
                      ELSE Min(10, R \div 10)
             IN  [src |-> [src EXCEPT !.next_update = now + b,
                                      !.backoff = <<Min(b + b \div 3, R \div 3)>>],
                  ok |-> FALSE, now |-> now]

\* an update() whose backoff grows without the bound R/3
Updater_update_unbounded(src, r, t0, d, R) ==
    LET now == t0 + d
    IN  IF r.ok
        THEN [src |-> [src EXCEPT !.data = r.doc, !.backoff = <<>>,
                                  !.next_update = now + R],
              ok |-> TRUE, now |-> now]
        ELSE LET b == IF src.backoff # <<>> THEN src.backoff[1]
                      ELSE Min(10, R \div 10)
             IN  [src |-> [src EXCEPT !.next_update = now + b,
                                      !.backoff = <<b + b \div 3>>],
                  ok |-> FALSE, now |-> now]

\* Updater::update: fetch_source is started at t0, returns r after d, and
\* `now` is sampled then; the slot afterwards and the returned (bool, Instant).
\* Durations are whole seconds.
Updater_update(src, r, t0, d, R) ==
    LET now == t0 + d
    IN  IF r.ok
        THEN [src |-> [src EXCEPT !.data = r.doc, !.backoff = <<>>,
                                  !.next_update = now + R],
              ok |-> TRUE, now |-> now]
        ELSE LET b == IF src.backoff # <<>> THEN src.backoff[1]
                      ELSE Min(10, R \div 10)
             IN  [src |-> [src EXCEPT !.next_update = now + b,
                                      !.backoff = <<Min(b + b \div 3, R \div 3)>>],
                  ok |-> FALSE, now |-> now]

\* Updater::cache_update; wr is the outcome of fileutil::update
cache_update(files, src, wr) ==
    IF cache_directory = <<>> THEN files
    ELSE IF wr = "ok"
         THEN [files EXCEPT ![src.config.name] = source_to_vec(src.data)]
         ELSE files

\* Updater::cache_load; io is the outcome of reading the file
cache_load(files, src, io) ==
    IF cache_directory = <<>> THEN [ok |-> FALSE, src |-> src]
    ELSE LET data == files[src.config.name]
         IN  IF data.kind = "missing" THEN [ok |-> FALSE, src |-> src]
             ELSE IF io = "err" THEN [ok |-> FALSE, src |-> src]
             ELSE LET r == source_deserialize(data)
                  IN  IF r.ok THEN [ok |-> TRUE, src |-> [src EXCEPT !.data = r.v]]
                      ELSE [ok |-> FALSE, src |-> src]

(***************************************************************************)
(* Manager (manager/mod.rs) and the driver loop (main.rs).                 *)
(***************************************************************************)
VARIABLES
    pc,          \* where the process is: "down", "init", "sleep", "refresh",
                 \* "apply", "persist", "persist2", "schedule", "exited";
                 \* "updater" when only a slot of the Updater is exercised
    proc,        \* how many processes have been started
    exitCode,    \* <<>> while running, <<status>> once run_daemon returned
    clock,       \* the monotonic clock (Instant::now)
    refresh,     \* Updater::refresh_time
    sources,     \* Manager::sources
    s,           \* the slot add_source is initialising, if any
    step,        \* where init_source is
    current,     \* Manager::current
    iface,       \* the peer table of the WireGuard interface
    stateFile,   \* <state_directory>/state.json
    stateTmp,    \* whether state.json.tmp exists
    cache,       \* <cache_directory>/<name>, per source
    rnow,        \* `now` of Manager::refresh
    t_refresh,   \* `t_refresh` of Manager::refresh
    tnow,        \* `now` of Manager::update
    built,       \* what make_config returned, with the inputs it read
    wake,        \* the instant update() returned
    first,       \* no update() of this process has returned yet
    examined,    \* per slot examined by this refresh: was it due, was it fetched
    log,         \* the steps update() has taken in this tick, in order
    loaded,      \* what current_load returned
    lastPersist, \* how the last current_update of this process ended
    prevInputs,  \* what the previous update() of this process built from
    attempts,    \* calls of Updater::update: by init_source for the slot `s`,
                 \* or in all when only a slot is exercised
    tried,       \* what init_source has tried for its slot, with the outcomes
    upd,         \* the last Updater::update call: slot before, result, outcome
    env,         \* what the surroundings may do: fetch outcomes, kills
    mk,          \* Manager::make_config under way, when it is exercised on its
                 \* own: the builder, the place in the passes, what was added
    lastDiff,    \* the last call of Device::apply_diff on its own: old, new and
                 \* the command it spawned
    pset,        \* an Ipv4Set/Ipv6Set exercised on its own, with the last
                 \* operation on it
    fu           \* fileutil::update exercised on its own: the directory, the
                 \* writer's temporary file and what a reader has seen

vars ==
    <<pc, proc, exitCode, clock, refresh, sources, s, step, current, iface,
      stateFile, stateTmp, cache, rnow, t_refresh, tnow, built, wake, first,
      examined, log, loaded, lastPersist, prevInputs, attempts, tried, upd,
      env, mk, lastDiff, pset, fu>>

NoBuild == [cfg |-> EmptyConfig, errs |-> <<>>, t_cfg |-> 0, inputs |-> <<>>]

NoUpdate == [called |-> FALSE]

NoMake == [phase |-> "off"]

NoDiff == [called |-> FALSE]

NoSet == [nets |-> <<>>, op |-> "none"]

NoFile == [at |-> "off"]

SourceSet == {SourceNames[i] : i \in 1..NSources}

\* the memory of a process that has not run yet
Blank ==
    /\ sources = <<>> /\ s = <<>> /\ step = "fetch1"
    /\ current = EmptyConfig
    /\ rnow = 0 /\ t_refresh = 0 /\ tnow = 0 /\ built = NoBuild /\ wake = 0
    /\ first = TRUE /\ examined = <<>> /\ log = <<>>
    /\ loaded = FALSE /\ lastPersist = "none" /\ prevInputs = <<>>
    /\ attempts = 0 /\ tried = <<>>

\* files and interface state a first start may find
Files ==
    /\ iface = EmptyConfig
    /\ stateFile \in {Missing, Garbage}
    /\ stateTmp = FALSE
    /\ \E f \in {Missing, Garbage, source_to_vec(Doc1)} :
           cache = [n \in SourceSet |-> f]

Init ==
    /\ pc = "down" /\ proc = 0 /\ exitCode = <<>> /\ clock = 0
    /\ refresh = 30
    /\ Blank
    /\ Files
    /\ upd = NoUpdate /\ mk = NoMake /\ lastDiff = NoDiff /\ pset = NoSet /\ fu = NoFile
    /\ env = [results |-> FetchResults, fetch_time |-> MaxFetchTime,
              oversleep |-> MaxOversleep, cache_writes |-> {"ok"},
              restarts |-> 0]

\* a current_load that returns true without having assigned `current`
current_load_unassigned(file, io) ==
    IF file.kind = "json" /\ io = "ok" THEN [ok |-> TRUE, v |-> EmptyConfig]
    ELSE [ok |-> FALSE]

\* Manager::current_load; io is the outcome of reading the file
current_load(file, io) ==
    IF state_directory = <<>> THEN [ok |-> FALSE]
    ELSE IF file.kind = "missing" THEN [ok |-> FALSE]
    ELSE IF io = "err" THEN [ok |-> FALSE]
    ELSE deserialize(file)

\* run_daemon up to the first add_source: Manager::new opens the device and
\* loads the state file
Boot ==
    /\ pc \in {"down", "exited"}
    /\ proc <= env.restarts
    /\ proc' = proc + 1
    /\ pc' = "init" /\ exitCode' = <<>>
    /\ \E io \in {"ok", "err"} :
          LET r == current_load(stateFile, io)
          IN  /\ current' = IF r.ok THEN r.v ELSE EmptyConfig
              /\ loaded' = r.ok
    /\ sources' = <<>> /\ s' = <<>> /\ step' = "fetch1"
    /\ rnow' = 0 /\ t_refresh' = 0 /\ tnow' = 0 /\ built' = NoBuild /\ wake' = 0
    /\ first' = TRUE /\ examined' = <<>> /\ log' = <<>>
    /\ lastPersist' = "none" /\ prevInputs' = <<>>
    /\ attempts' = 0 /\ tried' = <<>>
    /\ UNCHANGED <<clock, refresh, iface, stateFile, stateTmp, cache, upd, env, mk, lastDiff, pset, fu>>

\* the process is killed
Crash ==
    /\ pc \notin {"down", "exited", "updater"}
    /\ proc <= env.restarts
    /\ pc' = "down"
    /\ sources' = <<>> /\ s' = <<>> /\ step' = "fetch1"
    /\ current' = EmptyConfig
    /\ rnow' = 0 /\ t_refresh' = 0 /\ tnow' = 0 /\ built' = NoBuild /\ wake' = 0
    /\ first' = TRUE /\ examined' = <<>> /\ log' = <<>>
    /\ loaded' = FALSE /\ lastPersist' = "none" /\ prevInputs' = <<>>
    /\ attempts' = 0 /\ tried' = <<>>
    /\ UNCHANGED <<proc, exitCode, clock, refresh, iface, stateFile, stateTmp,
                   cache, upd, env, mk, lastDiff, pset, fu>>

\* init_source without the `required` test: the retries follow a cache miss
\* for every source
init_source_step_strict(stp, ok, required) ==
    IF ok THEN "accept"
    ELSE IF stp = "fetch1" THEN "cache"
    ELSE IF stp = "cache" THEN "fetch2"
    ELSE IF stp = "fetch2" THEN "fetch3"
    ELSE "fail"

\* Manager::init_source: what follows the step `step` that ended with `ok`
init_source_step(stp, ok, required) ==
    IF ok THEN "accept"
    ELSE IF stp = "fetch1" THEN "cache"
    ELSE IF stp = "cache" THEN (IF ~required THEN "accept" ELSE "fetch2")
    ELSE IF stp = "fetch2" THEN "fetch3"
    ELSE "fail"

\* init_source goes on with `slot`: add_source pushes it (after the last one
\* Manager::new returns and the driver loop calls update() at once), or
\* Manager::new fails and run_daemon returns 1, or the next step is taken
InitGoes(slot, nxt, now) ==
    IF nxt = "accept"
    THEN /\ sources' = Append(sources, slot)
         /\ s' = <<>> /\ step' = "fetch1"
         /\ IF Len(sources) + 1 = NSources
            THEN pc' = "sleep" /\ wake' = now
            ELSE pc' = "init" /\ wake' = wake
         /\ UNCHANGED exitCode
    ELSE IF nxt = "fail"
    THEN /\ pc' = "exited" /\ exitCode' = <<1>>
         /\ s' = <<slot>>
         /\ UNCHANGED <<sources, step, wake>>
    ELSE /\ s' = <<slot>> /\ step' = nxt
         /\ UNCHANGED <<pc, exitCode, sources, wake>>

\* init_source: one of its up to three Updater::update calls
InitFetch ==
    /\ pc = "init" /\ step \in {"fetch1", "fetch2", "fetch3"}
    /\ \E r \in env.results, d \in 0..env.fetch_time, wr \in env.cache_writes :
          LET slot == IF step = "fetch1"
                      THEN NewSlot(SourceNames[Len(sources) + 1], clock)
                      ELSE s[1]
              u == Updater_update(slot, r, clock, d, refresh)
          IN  /\ clock + d <= MaxTime
              /\ clock' = clock + d
              /\ attempts' = IF step = "fetch1" THEN 1 ELSE attempts + 1
              /\ tried' = IF step = "fetch1" THEN <<[what |-> "fetch", ok |-> u.ok]>>
                          ELSE Append(tried, [what |-> "fetch", ok |-> u.ok])
              /\ cache' = IF u.ok THEN cache_update(cache, u.src, wr) ELSE cache
              /\ InitGoes(u.src, init_source_step(step, u.ok, slot.config.required),
                          clock + d)
    /\ UNCHANGED <<proc, refresh, current, iface, stateFile, stateTmp, rnow,
                   t_refresh, tnow, built, first, examined, log, loaded,
                   lastPersist, prevInputs, upd, env, mk, lastDiff, pset, fu>>

\* init_source after the first fetch failed: the cached copy, then the
\* `required` test
InitCache ==
    /\ pc = "init" /\ step = "cache"
    /\ \E io \in {"ok", "err"} :
          LET r == cache_load(cache, s[1], io)
          IN  /\ tried' = Append(tried, [what |-> "cache", ok |-> r.ok])
              /\ InitGoes(r.src, init_source_step(step, r.ok, s[1].config.required),
                          clock)
    /\ UNCHANGED <<proc, clock, refresh, current, iface, stateFile,
                   stateTmp, cache, rnow, t_refresh, tnow, built, first,
                   examined, log, loaded, lastPersist, prevInputs, attempts, upd,
                   env, mk, lastDiff, pset, fu>>

\* the driver loop: sleep until the instant update() returned, then call
\* update(), whose refresh() samples `now`
Wake ==
    /\ pc = "sleep"
    /\ \E t \in Max(clock, wake)..(Max(clock, wake) + env.oversleep) :
          /\ t <= MaxTime
          /\ clock' = t
          /\ rnow' = t
          /\ t_refresh' = t + refresh
    /\ pc' = "refresh"
    /\ examined' = <<>> /\ log' = <<>>
    /\ UNCHANGED <<proc, exitCode, refresh, sources, s, step, current, iface,
                   stateFile, stateTmp, cache, tnow, built, wake, first, loaded,
                   lastPersist, prevInputs, attempts, tried, upd, env, mk, lastDiff, pset, fu>>

\* a refresh() that takes no slot for due
Due_never(now, src) == FALSE

\* a refresh() that takes every slot for due
Due_always(now, src) == TRUE

\* Manager::refresh: `if now >= src.next_update`
Due(now, src) == now >= src.next_update

\* Manager::refresh: one iteration of its loop over the slots
RefreshSlot ==
    /\ pc = "refresh" /\ Len(examined) < NSources
    /\ LET i == Len(examined) + 1
           src == sources[i]
       IN  \/ /\ Due(rnow, src)
              /\ \E r \in env.results, d \in 0..env.fetch_time,
                    wr \in env.cache_writes :
                    LET u == Updater_update(src, r, clock, d, refresh)
                    IN  /\ clock + d <= MaxTime
                        /\ clock' = clock + d
                        /\ sources' = [sources EXCEPT ![i] = u.src]
                        /\ rnow' = u.now
                        /\ t_refresh' = Min(t_refresh, u.src.next_update)
                        /\ cache' = IF u.ok THEN cache_update(cache, u.src, wr)
                                    ELSE cache
              /\ examined' = Append(examined, [due |-> TRUE, fetched |-> TRUE,
                                               at |-> rnow])
              /\ log' = Append(log, "fetch")
           \/ /\ ~Due(rnow, src)
              /\ t_refresh' = Min(t_refresh, src.next_update)
              /\ examined' = Append(examined, [due |-> FALSE, fetched |-> FALSE,
                                               at |-> rnow])
              /\ UNCHANGED <<clock, sources, rnow, cache, log>>
    /\ UNCHANGED <<pc, proc, exitCode, refresh, s, step, current, iface,
                   stateFile, stateTmp, tnow, built, wake, first, loaded,
                   lastPersist, prevInputs, attempts, tried, upd, env, mk, lastDiff, pset, fu>>

\* what make_config reads: each slot's document and the view it selects
RECURSIVE BuildInputs(_, _)
BuildInputs(srcs, ts) ==
    IF srcs = <<>> THEN <<>>
    ELSE <<[data |-> Head(srcs).data,
            next |-> HasNext(Head(srcs)) /\ ts >= Head(srcs).data.next[1].update_at]>>
         \o BuildInputs(Tail(srcs), ts)

\* an update() that applies without comparing
NeedsApplyAlways(config, cur) == TRUE

\* Manager::update: `if config != self.current`
NeedsApply(config, cur) == config # cur

\* Manager::update after refresh(): the public key is read, the clocks are
\* sampled, the config is built and compared with `current`
Build ==
    /\ pc = "refresh" /\ Len(examined) = NSources
    /\ tnow' = clock
    /\ LET ts == SystemTimeAt(clock)
           r == make_config(sources, GlobalConfig, LocalKey, ts)
       IN  /\ built' = [cfg |-> r.cfg, errs |-> r.errs, t_cfg |-> r.t_cfg,
                        inputs |-> BuildInputs(sources, ts)]
           /\ pc' = IF NeedsApply(r.cfg, current) THEN "apply" ELSE "schedule"
    /\ log' = Append(log, "build")
    /\ UNCHANGED <<proc, exitCode, clock, refresh, sources, s, step, current,
                   iface, stateFile, stateTmp, cache, rnow, t_refresh, wake,
                   first, examined, loaded, lastPersist, prevInputs, attempts,
                   tried, upd, env, mk, lastDiff, pset, fu>>

\* Device::get_public_key fails: update() returns the error, run_daemon
\* returns 1
PublicKeyFails ==
    /\ pc = "refresh" /\ Len(examined) = NSources
    /\ pc' = "exited" /\ exitCode' = <<1>>
    /\ UNCHANGED <<proc, clock, refresh, sources, s, step, current, iface,
                   stateFile, stateTmp, cache, rnow, t_refresh, tnow, built,
                   wake, first, examined, log, loaded, lastPersist, prevInputs,
                   attempts, tried, upd, env, mk, lastDiff, pset, fu>>

\* an update() that ignores the result of Device::apply_diff
OnApplyIgnored(ok) == [pc |-> "persist", exitCode |-> <<>>]

\* what follows Device::apply_diff in Manager::update and run_daemon: on Ok
\* the state is persisted; an Err is returned by `?` and run_daemon returns 1
OnApply(ok) ==
    IF ok THEN [pc |-> "persist", exitCode |-> <<>>]
    ELSE [pc |-> "exited", exitCode |-> <<1>>]

\* Device::apply_diff spawns `wg set` and waits for it; a failing `wg set`
\* may have changed the interface or not
Apply ==
    /\ pc = "apply"
    /\ LET cmd == apply_diff(current, built.cfg)
           done == WgSet(iface, cmd.args, cmd.stdin)
       IN  \E ok \in BOOLEAN :
              /\ iface' \in IF ok THEN {done} ELSE {iface, done}
              /\ pc' = OnApply(ok).pc
              /\ exitCode' = OnApply(ok).exitCode
              /\ log' = Append(log, IF ok THEN "apply" ELSE "apply failed")
    /\ UNCHANGED <<proc, clock, refresh, sources, s, step, current, stateFile,
                   stateTmp, cache, rnow, t_refresh, tnow, built, wake, first,
                   examined, loaded, lastPersist, prevInputs, attempts, tried,
                   upd, env, mk, lastDiff, pset, fu>>

\* update_file up to the open of <path>.tmp (append, create_new): it fails
\* when the temporary file exists already
update_file_open(tmp, io) ==
    IF tmp \/ io = "err" THEN [ok |-> FALSE, tmp |-> tmp]
    ELSE [ok |-> TRUE, tmp |-> TRUE]

\* an update_file that reports Ok without having renamed the file
update_file_write_lost(file, data, io, removed) ==
    IF io = "ok" THEN [ok |-> TRUE, file |-> file, tmp |-> FALSE]
    ELSE [ok |-> FALSE, file |-> file, tmp |-> ~removed]

\* update_file from write_all on: write, sync and rename, and on an error
\* the removal of the temporary file, which may fail too
update_file_write(file, data, io, removed) ==
    IF io = "ok" THEN [ok |-> TRUE, file |-> data, tmp |-> FALSE]
    ELSE [ok |-> FALSE, file |-> file, tmp |-> ~removed]

\* an update() that forgets to replace `current`
current_kept(cur, config) == cur

\* Manager::update: `self.current = config` after current_update
current_after(cur, config) == config

\* Manager::current_update up to update_file's open of state.json.tmp;
\* when it does not get that far, `current` is replaced
PersistOpen ==
    /\ pc = "persist"
    /\ \E io \in {"ok", "err"} :
          LET o == update_file_open(stateTmp, io)
          IN  IF state_directory = <<>> \/ ~o.ok
              THEN /\ lastPersist' = IF state_directory = <<>> THEN "skipped"
                                     ELSE "failed"
                   /\ current' = current_after(current, built.cfg)
                   /\ pc' = "schedule"
                   /\ log' = Append(log, "persist") \o <<"replace">>
                   /\ UNCHANGED stateTmp
              ELSE /\ stateTmp' = o.tmp
                   /\ pc' = "persist2"
                   /\ UNCHANGED <<lastPersist, current, log>>
    /\ UNCHANGED <<proc, exitCode, clock, refresh, sources, s, step, iface,
                   stateFile, cache, rnow, t_refresh, tnow, built, wake, first,
                   examined, loaded, prevInputs, attempts, tried, upd, env, mk, lastDiff, pset, fu>>

\* the rest of update_file, then `current` is replaced
PersistWrite ==
    /\ pc = "persist2"
    /\ \E io \in {"ok", "err"}, removed \in BOOLEAN :
          LET w == update_file_write(stateFile, to_vec(built.cfg), io, removed)
          IN  /\ stateFile' = w.file
              /\ stateTmp' = w.tmp
              /\ lastPersist' = IF w.ok THEN "ok" ELSE "failed"
    /\ current' = current_after(current, built.cfg)
    /\ pc' = "schedule"
    /\ log' = Append(log, "persist") \o <<"replace">>
    /\ UNCHANGED <<proc, exitCode, clock, refresh, sources, s, step, iface,
                   cache, rnow, t_refresh, tnow, built, wake, first, examined,
                   loaded, prevInputs, attempts, tried, upd, env, mk, lastDiff, pset, fu>>

\* an update() that returns the later of the two instants
WakeInstant_late(now, t_cfg_wall, sysnow, tr) ==
    LET time_to_cfg == Max(0, t_cfg_wall - sysnow)
        t_cfg == now + time_to_cfg
    IN  IF t_cfg < tr THEN tr ELSE t_cfg

\* the instant Manager::update returns
WakeInstant(now, t_cfg_wall, sysnow, tr) ==
    LET time_to_cfg == Max(0, t_cfg_wall - sysnow)
        t_cfg == now + time_to_cfg
    IN  IF t_cfg < tr THEN t_cfg
        ELSE IF tr > now THEN tr
        ELSE now

\* Manager::update returns Ok
Schedule ==
    /\ pc = "schedule"
    /\ wake' = WakeInstant(tnow, built.t_cfg, SystemTimeAt(tnow), t_refresh)
    /\ pc' = "sleep"
    /\ first' = FALSE
    /\ prevInputs' = <<built.inputs>>
    /\ rnow' = 0 /\ t_refresh' = 0 /\ tnow' = 0 /\ built' = NoBuild
    /\ examined' = <<>> /\ log' = <<>>
    /\ UNCHANGED <<proc, exitCode, clock, refresh, sources, s, step, current,
                   iface, stateFile, stateTmp, cache, loaded, lastPersist,
                   attempts, tried, upd, env, mk, lastDiff, pset, fu>>

Next ==
    \/ Boot
    \/ InitFetch
    \/ InitCache
    \/ Wake
    \/ RefreshSlot
    \/ Build
    \/ PublicKeyFails
    \/ Apply
    \/ PersistOpen
    \/ PersistWrite
    \/ Schedule

\* the daemon from its first start, run until it exits
Spec == Init /\ [][Next]_vars

\* the daemon killed at any point or exiting, and started again by its
\* supervisor; the files and the interface outlive the process
InitRestart ==
    /\ pc = "down" /\ proc = 0 /\ exitCode = <<>> /\ clock = 0
    /\ refresh = 30
    /\ Blank
    /\ Files
    /\ upd = NoUpdate /\ mk = NoMake /\ lastDiff = NoDiff /\ pset = NoSet /\ fu = NoFile
    /\ env = [results |-> {[ok |-> FALSE], [ok |-> TRUE, doc |-> Doc1]},
              fetch_time |-> 0, oversleep |-> 0, cache_writes |-> {"ok"},
              restarts |-> MaxRestarts]

NextRestart ==
    \/ Next
    \/ Crash

SpecRestart == InitRestart /\ [][NextRestart]_vars

\* a first start with sources whose document may differ from one fetch to
\* the next, so that the config a new process builds may lack a peer the
\* killed one had set
InitCrash ==
    /\ pc = "down" /\ proc = 0 /\ exitCode = <<>> /\ clock = 0
    /\ refresh = 30
    /\ Blank
    /\ iface = EmptyConfig /\ stateFile = Missing /\ stateTmp = FALSE
    /\ cache = [n \in SourceSet |-> Missing]
    /\ upd = NoUpdate /\ mk = NoMake /\ lastDiff = NoDiff /\ pset = NoSet
    /\ fu = NoFile
    /\ env = [results |-> {[ok |-> FALSE], [ok |-> TRUE, doc |-> Doc1],
                           [ok |-> TRUE, doc |-> Doc2]},
              fetch_time |-> 0, oversleep |-> 0, cache_writes |-> {"ok"},
              restarts |-> MaxRestarts]

\* `wg set` succeeds
ApplyOk == Apply /\ pc' = "persist"

\* the daemon where neither `wg set` nor `wg show` fails: a process ends by
\* being killed, or by a required source that cannot be had at startup
NextCrash ==
    \/ Boot
    \/ InitFetch
    \/ InitCache
    \/ Wake
    \/ RefreshSlot
    \/ Build
    \/ ApplyOk
    \/ PersistOpen
    \/ PersistWrite
    \/ Schedule
    \/ Crash

SpecCrash == InitCrash /\ [][NextCrash]_vars

\* how long a fetch may take where slow fetches are looked at
MaxSlowFetch == 2

\* a refresh_sec short enough for the slots to come due again and again
ShortRefresh == 4

\* the daemon with fetches slow enough for a deadline to pass while another
\* slot is being fetched; the sources publish a `next` block or fail
InitTick ==
    /\ pc = "down" /\ proc = 0 /\ exitCode = <<>> /\ clock = 0
    /\ refresh = ShortRefresh
    /\ Blank
    /\ iface = EmptyConfig /\ stateFile = Missing /\ stateTmp = FALSE
    /\ cache = [n \in SourceSet |-> Missing]
    /\ upd = NoUpdate /\ mk = NoMake /\ lastDiff = NoDiff /\ pset = NoSet /\ fu = NoFile
    /\ env = [results |-> {[ok |-> FALSE], [ok |-> TRUE, doc |-> Doc3]},
              fetch_time |-> MaxSlowFetch, oversleep |-> 0,
              cache_writes |-> {"ok"}, restarts |-> 0]

SpecTick == InitTick /\ [][Next]_vars

\* the daemon whose sources fail for a while and then answer every fetch
InitLive ==
    /\ pc = "down" /\ proc = 0 /\ exitCode = <<>> /\ clock = 0
    /\ refresh = ShortRefresh
    /\ Blank
    /\ iface = EmptyConfig /\ stateFile = Missing /\ stateTmp = FALSE
    /\ cache = [n \in SourceSet |-> Missing]
    /\ upd = NoUpdate /\ mk = NoMake /\ lastDiff = NoDiff /\ pset = NoSet
    /\ fu = NoFile
    /\ env = [results |-> {[ok |-> FALSE], [ok |-> TRUE, doc |-> Doc1]},
              fetch_time |-> MaxFetchTime, oversleep |-> 0,
              cache_writes |-> {"ok"}, restarts |-> 0]

\* the sources become reachable: fetch_source fails no more
Recover ==
    /\ [ok |-> FALSE] \in env.results
    /\ env' = [env EXCEPT !.results = @ \ {[ok |-> FALSE]}]
    /\ UNCHANGED <<pc, proc, exitCode, clock, refresh, sources, s, step,
                   current, iface, stateFile, stateTmp, cache, rnow,
                   t_refresh, tnow, built, wake, first, examined, log, loaded,
                   lastPersist, prevInputs, attempts, tried, upd, mk,
                   lastDiff, pset, fu>>

\* run_daemon while it keeps running: neither `wg show` nor `wg set` fails
Loop ==
    \/ Boot
    \/ InitFetch
    \/ InitCache
    \/ Wake
    \/ RefreshSlot
    \/ Build
    \/ ApplyOk
    \/ PersistOpen
    \/ PersistWrite
    \/ Schedule

NextLive == Loop \/ Recover

\* the steps of the loop but the two that compute a config or a command
Moves ==
    \/ Boot
    \/ InitFetch
    \/ InitCache
    \/ Wake
    \/ RefreshSlot
    \/ PersistOpen
    \/ PersistWrite
    \/ Schedule

\* Manager::update gets past make_config, and past apply_diff
Built == pc = "refresh" /\ Len(examined) = NSources /\ pc' \in {"apply", "schedule"}

Applied == pc = "apply" /\ pc' = "persist"

\* a fetch that takes time
SlowFetch == RefreshSlot /\ clock' > clock

\* the process is scheduled whenever it can take a step, and of the fetches
\* it keeps making not all return within the same second
SpecLive ==
    /\ InitLive /\ [][NextLive]_vars
    /\ WF_vars(Moves)
    /\ WF_pc(Built)
    /\ WF_pc(Applied)
    /\ SF_vars(SlowFetch)

\* the refresh periods a slot is exercised with
RefreshTimes == {30, 120}

\* one slot of the Updater on its own: update() is called whenever the slot
\* is due, with any outcome of the fetch and of the cache write
InitUpd ==
    /\ pc = "updater" /\ proc = 1 /\ exitCode = <<>> /\ clock = 0
    /\ refresh \in RefreshTimes
    /\ sources = <<NewSlot(SourceNames[1], 0)>>
    /\ s = <<>> /\ step = "fetch1"
    /\ current = EmptyConfig
    /\ rnow = 0 /\ t_refresh = 0 /\ tnow = 0 /\ built = NoBuild /\ wake = 0
    /\ first = TRUE /\ examined = <<>> /\ log = <<>>
    /\ loaded = FALSE /\ lastPersist = "none" /\ prevInputs = <<>>
    /\ attempts = 0 /\ tried = <<>>
    /\ iface = EmptyConfig /\ stateFile = Missing /\ stateTmp = FALSE
    /\ cache = [n \in SourceSet |-> Missing]
    /\ upd = NoUpdate /\ mk = NoMake /\ lastDiff = NoDiff /\ pset = NoSet /\ fu = NoFile
    /\ env = [results |-> {[ok |-> FALSE], [ok |-> TRUE, doc |-> Doc1],
                          [ok |-> TRUE, doc |-> Doc2]},
              fetch_time |-> MaxFetchTime, oversleep |-> 0, cache_writes |-> {"ok", "err"}, restarts |-> 0]

\* the delay a call scheduled: next_update - now
Delay(u) == u.after.next_update - u.now

\* Updater::update is called at the instant the slot is due
UpdaterCall ==
    /\ pc = "updater"
    /\ attempts < MaxCalls
    /\ \E r \in env.results, d \in 0..env.fetch_time, wr \in env.cache_writes :
          LET src == sources[1]
              t0 == Max(clock, src.next_update)
              u == Updater_update(src, r, t0, d, refresh)
          IN  /\ clock' = t0 + d
              /\ sources' = <<u.src>>
              /\ cache' = IF u.ok THEN cache_update(cache, u.src, wr) ELSE cache
              /\ upd' = [called |-> TRUE, before |-> src, r |-> r, t0 |-> t0,
                         d |-> d, wr |-> wr, after |-> u.src, ok |-> u.ok,
                         now |-> u.now, cache_before |-> cache,
                         prev |-> IF upd.called
                                  THEN <<[ok |-> upd.ok, delay |-> Delay(upd)]>>
                                  ELSE <<>>]
    /\ attempts' = attempts + 1
    /\ UNCHANGED <<pc, proc, exitCode, refresh, s, step, current, iface,
                   stateFile, stateTmp, rnow, t_refresh, tnow, built, wake,
                   first, examined, log, loaded, lastPersist, prevInputs, tried,
                   env, mk, lastDiff, pset, fu>>

NextUpd == UpdaterCall

SpecUpd == InitUpd /\ [][NextUpd]_vars

(***************************************************************************)
(* Properties of the daemon.                                               *)
(***************************************************************************)
Last(q) == q[Len(q)]

Has(q, x) == \E i \in 1..Len(q) : q[i] = x

\* C1: when the interface's peer table equals `old`, a successful
\* apply_diff(old, new) leaves the peer table equal to `new`: the same keys
\* and, per key, the same endpoint, preshared key, persistent keepalive and
\* allowed IPv4/IPv6 lists.
C1_ReconcileCorrect ==
    [][(pc = "apply" /\ pc' = "persist" /\ iface = current)
           => iface' = built.cfg]_vars

\* C2 as stated: at every tick boundary after a successful apply, the
\* content of state.json equals `current`, also when the file write failed.
C2_StateFileIsCurrent ==
    (pc = "sleep" /\ lastPersist # "none")
        => deserialize(stateFile) = [ok |-> TRUE, v |-> current]

\* C2: at every tick boundary at which the state-file write of the most
\* recent successful apply succeeded, the content of state.json equals
\* `current`; state.json changes only by a write that succeeds, and then to
\* the config that becomes `current`, so a failed write leaves it as it was.
C2_StateFileAfterWrite ==
    /\ []((pc = "sleep" /\ lastPersist = "ok")
              => deserialize(stateFile) = [ok |-> TRUE, v |-> current])
    /\ [][stateFile' # stateFile
              => /\ lastPersist' = "ok"
                 /\ deserialize(stateFile') = [ok |-> TRUE, v |-> current']]_vars

\* a tick boundary after an apply whose write succeeded
C2_Witness ==
    /\ pc = "sleep" /\ lastPersist = "ok" /\ current # EmptyConfig
    /\ ~first

\* the place of a step within a tick
Rank(x) ==
    CASE x = "fetch" -> 1
      [] x = "build" -> 2
      [] x \in {"apply", "apply failed"} -> 3
      [] x = "persist" -> 4
      [] x = "replace" -> 5

\* C3: within one update() every due fetch completes before the config is
\* built, the config is built before apply_diff is invoked, apply_diff is
\* invoked only when the built config differs from `current`, and the state
\* file is written and `current` replaced only after apply_diff succeeded.
C3_TickOrder ==
    /\ [](/\ \A i, j \in 1..Len(log) : i < j => Rank(log[i]) <= Rank(log[j])
          /\ Has(log, "build")
                 => /\ Len(examined) = NSources
                    /\ \A i \in 1..NSources :
                           examined[i].due => examined[i].fetched
          /\ \A j \in 1..Len(log) :
                 Rank(log[j]) = 3 => \E i \in 1..(j - 1) : log[i] = "build"
          /\ \A j \in 1..Len(log) :
                 Rank(log[j]) > 3 => \E i \in 1..(j - 1) : log[i] = "apply"
          /\ pc = "apply" => built.cfg # current)
    /\ [][(pc \notin {"down", "exited"}
               /\ <<stateFile, stateTmp, current>>' # <<stateFile, stateTmp, current>>)
              => Has(log, "apply")]_vars

\* a tick that fetched, built, applied, wrote the state file and replaced
\* `current`
C3_Witness ==
    /\ pc = "schedule"
    /\ log = <<"fetch", "build", "apply", "persist", "replace">>
    /\ lastPersist = "ok"

\* C4: when apply_diff fails, update() returns the error without writing the
\* state file and without replacing `current`, run_daemon returns 1, and the
\* process runs no further tick.
C4_ApplyFailureIsFatal ==
    /\ [](Has(log, "apply failed")
              => /\ pc = "exited" /\ exitCode = <<1>>
                 /\ Last(log) = "apply failed")
    /\ [][/\ (pc = "apply" /\ Has(log', "apply failed"))
                 => UNCHANGED <<stateFile, stateTmp, current>>
          /\ pc = "exited" => (pc' = "init" /\ proc' = proc + 1)]_vars

\* apply_diff has failed in a tick after the first one
C4_Witness ==
    /\ pc = "exited" /\ exitCode = <<1>> /\ Has(log, "apply failed")
    /\ ~first /\ built.cfg # current

\* C5: an update() that builds from the same source documents and the same
\* selected views as the update() before it finds the built config equal
\* to `current` and does not invoke apply_diff.
C5_BackToBack ==
    (built.inputs # <<>> /\ prevInputs = <<built.inputs>>)
        => /\ built.cfg = current
           /\ pc \notin {"apply", "persist", "persist2"}
           /\ ~Has(log, "apply") /\ ~Has(log, "apply failed")

\* the second of two such calls, the first of which applied a config
C5_Witness ==
    /\ pc = "schedule" /\ prevInputs = <<built.inputs>>
    /\ current # EmptyConfig /\ lastPersist # "none"

FetchesTried(q) == Cardinality({i \in 1..Len(q) : q[i].what = "fetch"})

\* Manager::new has failed: run_daemon returned before the first tick
StartupFailed == pc = "exited" /\ Len(sources) < NSources

AllFailed ==
    <<[what |-> "fetch", ok |-> FALSE], [what |-> "cache", ok |-> FALSE],
      [what |-> "fetch", ok |-> FALSE], [what |-> "fetch", ok |-> FALSE]>>

\* C10: init_source makes at most three fetch attempts for a source;
\* startup fails if and only if the source is required, the first fetch
\* fails, no cached copy loads and both retries fail; a source that is not
\* required never fails startup, and with neither a fetch nor a cached copy
\* it is accepted with the empty document.
C10_InitSource ==
    /\ FetchesTried(tried) <= 3 /\ attempts = FetchesTried(tried)
    /\ StartupFailed <=> (s # <<>> /\ s[1].config.required /\ tried = AllFailed)
    /\ (pc \in {"init", "sleep"} /\ first /\ s = <<>> /\ sources # <<>>
            /\ tried = SubSeq(AllFailed, 1, 2))
           => /\ ~Last(sources).config.required
              /\ Last(sources).data = EmptySource

\* startup has failed on the required source
C10_Witness ==
    /\ StartupFailed /\ tried = AllFailed /\ attempts = 3
    /\ Len(sources) = 1 /\ sources[1].data = EmptySource

(***************************************************************************)
(* Properties of restarts.                                                 *)
(***************************************************************************)
\* C6: a process that has loaded a state file holding the config its
\* sources yield does not invoke apply_diff in its first update(); a start
\* never fails on the state file, and when the file is missing, unreadable
\* or unparsable `current` starts empty, else it starts as the file's
\* content.
C6_RestartIdempotent ==
    /\ []((pc = "apply" /\ first /\ loaded)
              => deserialize(stateFile) # [ok |-> TRUE, v |-> built.cfg])
    /\ [][proc' # proc
              => /\ pc' = "init" /\ exitCode' = <<>>
                 /\ stateFile.kind # "json" => ~loaded'
                 /\ ~loaded' => current' = EmptyConfig
                 /\ loaded' => deserialize(stateFile)
                                   = [ok |-> TRUE, v |-> current']]_vars

\* the first update() of a restarted process has built the config that the
\* state file holds, and goes on without applying
C6_Witness ==
    /\ proc = 2 /\ first /\ loaded /\ pc = "schedule" /\ log = <<"build">>
    /\ built.cfg # EmptyConfig
    /\ deserialize(stateFile) = [ok |-> TRUE, v |-> built.cfg]

\* the public keys of a peer table
PeerKeys(c) == DOMAIN c

\* C38: when the process is killed at any point of a tick (after apply_diff
\* succeeded and before the state file was written, say) and started again,
\* at the end of the first tick of the new process the interface has
\* exactly the peers of the config that tick built: none is missing and
\* none is left over from the earlier run.
C38_CrashConsistent ==
    (proc > 1 /\ first /\ pc = "schedule")
        => PeerKeys(iface) = PeerKeys(built.cfg)

\* C39: a kill inside a state-file write does not disable persistence:
\* whenever a process that was started again comes to persist a config it
\* has applied, update_file gets its temporary file open unless the open
\* itself meets an I/O error, whatever an interrupted write left behind.
C39_PersistAfterCrash ==
    (proc > 1 /\ pc = "persist")
        => update_file_open(stateTmp, "ok").ok

(***************************************************************************)
(* Properties of Updater::update.                                          *)
(***************************************************************************)
\* C7: on a failed fetch update() leaves the slot's document unchanged,
\* sets next_update = now + b, where b is the stored backoff or, when none
\* is stored, min(10 s, R/10), and stores backoff = min(b + b/3, R/3); so
\* the first failure after startup or after a success schedules the retry
\* min(10 s, R/10) later.
C7_FailedFetch ==
    (upd.called /\ ~upd.r.ok)
        => LET b == IF upd.before.backoff # <<>> THEN upd.before.backoff[1]
                    ELSE Min(10, refresh \div 10)
           IN  /\ ~upd.ok /\ upd.now = upd.t0 + upd.d
               /\ upd.after = [upd.before EXCEPT
                                   !.next_update = upd.now + b,
                                   !.backoff = <<Min(b + b \div 3, refresh \div 3)>>]
               /\ sources = <<upd.after>> /\ cache = upd.cache_before
               /\ (upd.prev = <<>> \/ upd.prev[1].ok)
                      => Delay(upd) = Min(10, refresh \div 10)

\* a fetch has failed for the second time in a row on a slot that holds a
\* fetched document
C7_Witness ==
    /\ upd.called /\ ~upd.r.ok
    /\ upd.before.backoff # <<>> /\ upd.before.data = Doc2
    /\ upd.after.data = Doc2

\* C8: on a successful fetch update() replaces the slot's document with the
\* fetched one, clears the backoff, sets next_update = now + R with `now`
\* sampled after the fetch, and returns (true, now), whether the write to
\* the cache file succeeds or not; the cache file changes only when it does.
C8_SuccessfulFetch ==
    (upd.called /\ upd.r.ok)
        => /\ upd.ok /\ upd.now = upd.t0 + upd.d
           /\ upd.after = [upd.before EXCEPT
                               !.data = upd.r.doc, !.backoff = <<>>,
                               !.next_update = upd.t0 + upd.d + refresh]
           /\ sources = <<upd.after>>
           /\ cache = IF upd.wr = "ok"
                      THEN [upd.cache_before EXCEPT
                                ![upd.before.config.name] = source_to_vec(upd.r.doc)]
                      ELSE upd.cache_before

\* a fetch that took time has succeeded after a failure, replacing another
\* document, and the cache write has failed
C8_Witness ==
    /\ upd.called /\ upd.r.ok /\ upd.wr = "err" /\ upd.d > 0
    /\ upd.before.backoff # <<>>
    /\ upd.before.data = Doc1 /\ upd.after.data = Doc2
    /\ cache[upd.before.config.name] = source_to_vec(Doc1)

\* C9: the delay scheduled before the next retry never exceeds R/3, does
\* not decrease from one failure to the next, and is min(10 s, R/10) at the
\* first failure after a success.
C9_Backoff ==
    (upd.called /\ ~upd.ok)
        => /\ Delay(upd) <= refresh \div 3
           /\ (upd.prev # <<>> /\ ~upd.prev[1].ok) => Delay(upd) >= upd.prev[1].delay
           /\ (upd.prev # <<>> /\ upd.prev[1].ok)
                  => Delay(upd) = Min(10, refresh \div 10)

\* the delay has grown up to R/3
C9_Witness ==
    /\ upd.called /\ ~upd.ok /\ Delay(upd) = refresh \div 3
    /\ upd.prev # <<>> /\ ~upd.prev[1].ok /\ upd.prev[1].delay < Delay(upd)
    /\ upd.after.backoff = <<refresh \div 3>>


(***************************************************************************)
(* Manager::make_config on its own: the two loops of manager/mod.rs feed   *)
(* the ConfigBuilder one record at a time.  The documents are whatever the *)
(* sources publish, so every step draws the next record and the source it  *)
(* comes from; the order of the loops decides which draws may follow.      *)
(***************************************************************************)
MaxRecords == 4

\* the address past every prefix set of source "a"
FarHost == Host(Pow2(BITS) - 1)

ServerPool ==
    { Server("K1", "E1", 25, <<Host(1)>>, <<>>),
      Server("K1", "E2", 5, <<Host(1), FarHost>>, <<Host(0)>>),
      Server("K3", "E2", 0, <<FarHost>>, <<>>),
      Server("KL", "E3", 0, <<Host(2)>>, <<>>) }

RoadWarriorPool ==
    { RoadWarrior("K3", "KL", <<Host(2)>>, <<>>),
      RoadWarrior("K2", "K1", <<FarHost>>, <<>>),
      RoadWarrior("KL", "K1", <<Host(3)>>, <<>>),
      RoadWarrior("K2", "K3", <<Host(3)>>, <<Host(0)>>) }

\* config::Peer, an entry of the [peer.<key>] table
ConfigPeer(source, endpoint, psk, keepalive) ==
    [source |-> source, endpoint |-> endpoint, psk |-> psk,
     keepalive |-> keepalive]

\* the operator's global configurations the builder is run under
BuildGlobals ==
    { GlobalConfig,
      [min_keepalive |-> 10, max_keepalive |-> 20,
       peers |-> MapPut(MapPut(MapPut(EmptyMap,
                            "K1", ConfigPeer("a", None, None, <<>>)),
                            "K3", ConfigPeer("b", None, None, <<>>)),
                            LocalKey, ConfigPeer("a", None, None, <<>>))],
      [min_keepalive |-> 10, max_keepalive |-> 0,
       peers |-> MapPut(MapPut(EmptyMap,
                            "K1", ConfigPeer(None, "EO", "PO", <<3>>)),
                            "K3", ConfigPeer(None, "EO", None, <<>>))] }

\* the orders the source list can have
SourceOrders == {<<SourceNames[1], SourceNames[2]>>,
                 <<SourceNames[2], SourceNames[1]>>}

\* a single loop over the sources, the servers of each followed by its
\* road-warriors
PassOrder_per_source(phase, i, kind, j) ==
    IF kind = "server" THEN j > i \/ (j = i /\ phase = "A")
    ELSE j >= i

\* make_config runs all servers of all sources, then all road-warriors:
\* may a record of `kind` from the source at index j come after the loops
\* stood at (phase, i)?
PassOrder(phase, i, kind, j) ==
    IF kind = "server" THEN phase = "A" /\ j >= i
    ELSE phase = "A" \/ j >= i

InitBuild ==
    /\ pc = "builder" /\ proc = 1 /\ exitCode = <<>> /\ clock = 0
    /\ refresh = 0
    /\ \E order \in SourceOrders :
           sources = [i \in 1..NSources |-> NewSlot(order[i], 0)]
    /\ s = <<>> /\ step = "fetch1"
    /\ current = EmptyConfig
    /\ rnow = 0 /\ t_refresh = 0 /\ tnow = 0 /\ built = NoBuild /\ wake = 0
    /\ first = TRUE /\ examined = <<>> /\ log = <<>>
    /\ loaded = FALSE /\ lastPersist = "none" /\ prevInputs = <<>>
    /\ attempts = 0 /\ tried = <<>>
    /\ iface = EmptyConfig /\ stateFile = Missing /\ stateTmp = FALSE
    /\ cache = [n \in SourceSet |-> Missing]
    /\ upd = NoUpdate /\ lastDiff = NoDiff /\ pset = NoSet /\ fu = NoFile
    /\ env = [results |-> {}, fetch_time |-> 0, oversleep |-> 0,
              cache_writes |-> {}, restarts |-> 0]
    /\ \E gc \in BuildGlobals :
           mk = [phase |-> "A", i |-> 1, n |-> 0, gc |-> gc, b |-> BuilderNew,
                 origin |-> EmptyMap, unknown |-> {}, last |-> <<>>]

\* what one call of the builder leaves behind: the builder itself, which
\* record created each entry, and the bases that were looked up in vain
Made(kind, j, p, b1) ==
    LET src == sources[j]
        b0 == mk.b
        created == p.public_key \in DOMAIN b1.c /\ p.public_key \notin DOMAIN b0.c
    IN  [phase |-> IF kind = "server" THEN "A" ELSE "B",
         i |-> j, n |-> mk.n + 1, gc |-> mk.gc, b |-> b1,
         origin |-> IF created
                    THEN MapPut(mk.origin, p.public_key,
                                [src |-> src.config.name, kind |-> kind])
                    ELSE mk.origin,
         unknown |-> IF /\ Len(b1.err) > Len(b0.err)
                        /\ b1.err[Len(b1.err)].err = "unknown base peer"
                     THEN mk.unknown \cup {p.base}
                     ELSE mk.unknown,
         last |-> <<[kind |-> kind, src |-> src, p |-> p,
                     before |-> b0, after |-> b1]>>]

\* manager/mod.rs 210-214: cfg.add_server(src, peer)
MakeServer ==
    /\ pc = "builder"
    /\ mk.n < MaxRecords
    /\ \E j \in 1..NSources, p \in ServerPool :
          /\ PassOrder(mk.phase, mk.i, "server", j)
          /\ mk' = Made("server", j, p,
                        add_server(mk.b, mk.gc, LocalKey, sources[j], p))
    /\ UNCHANGED <<pc, proc, exitCode, clock, refresh, sources, s, step,
                   current, iface, stateFile, stateTmp, cache, rnow, t_refresh,
                   tnow, built, wake, first, examined, log, loaded, lastPersist,
                   prevInputs, attempts, tried, upd, env, lastDiff, pset, fu>>

\* manager/mod.rs 216-220: cfg.add_road_warrior(src, peer)
MakeRoadWarrior ==
    /\ pc = "builder"
    /\ mk.n < MaxRecords
    /\ \E j \in 1..NSources, p \in RoadWarriorPool :
          /\ PassOrder(mk.phase, mk.i, "road_warrior", j)
          /\ mk' = Made("road_warrior", j, p,
                        add_road_warrior(mk.b, mk.gc, LocalKey, sources[j], p))
    /\ UNCHANGED <<pc, proc, exitCode, clock, refresh, sources, s, step,
                   current, iface, stateFile, stateTmp, cache, rnow, t_refresh,
                   tnow, built, wake, first, examined, log, loaded, lastPersist,
                   prevInputs, attempts, tried, upd, env, lastDiff, pset, fu>>

NextBuild == MakeServer \/ MakeRoadWarrior

SpecBuild == InitBuild /\ [][NextBuild]_vars

(***************************************************************************)
(* Properties of the builder, checked under SpecBuild.                     *)
(***************************************************************************)
\* the prefixes of family f the entry k had before the last call
OldNets(l, k, f) == IF k \in DOMAIN l.before.c THEN l.before.c[k][f] ELSE <<>>

\* the prefixes of family f the last call appended to the entry k
NewNets(l, k, f) ==
    SubSeq(l.after.c[k][f], Len(OldNets(l, k, f)) + 1, Len(l.after.c[k][f]))

AllWithin(allowed, nets) ==
    \A n \in 1..Len(nets) : SetContains(allowed, nets[n])

\* C11 as stated: every prefix of every entry E lies in the allowed set of
\* the source whose record created E
C11_WithinCreatingSource ==
    \A k \in DOMAIN mk.b.c :
        /\ AllWithin(SourceConfig(mk.origin[k].src).ipv4, mk.b.c[k].ipv4)
        /\ AllWithin(SourceConfig(mk.origin[k].src).ipv6, mk.b.c[k].ipv6)

\* C11 amended: every call keeps the prefixes the entries had and appends
\* only prefixes that lie in the allowed set of the source of the record it
\* was called with, so every prefix of an entry lies in the allowed set of
\* the source whose record contributed it
C11_WithinContributingSource ==
    mk.last # <<>> =>
        LET l == mk.last[1]
        IN  /\ DOMAIN l.before.c \subseteq DOMAIN l.after.c
            /\ \A k \in DOMAIN l.after.c :
                 /\ SubSeq(l.after.c[k].ipv4, 1, Len(OldNets(l, k, "ipv4")))
                        = OldNets(l, k, "ipv4")
                 /\ SubSeq(l.after.c[k].ipv6, 1, Len(OldNets(l, k, "ipv6")))
                        = OldNets(l, k, "ipv6")
                 /\ AllWithin(l.src.config.ipv4, NewNets(l, k, "ipv4"))
                 /\ AllWithin(l.src.config.ipv6, NewNets(l, k, "ipv6"))

\* a record of one source has added a prefix to an entry another source
\* created, and that prefix lies outside the creating source's allowed set
C11_Witness ==
    /\ mk.last # <<>>
    /\ \E k \in DOMAIN mk.b.c :
          /\ mk.origin[k].src # mk.last[1].src.config.name
          /\ NewNets(mk.last[1], k, "ipv4") # <<>>
          /\ ~AllWithin(SourceConfig(mk.origin[k].src).ipv4,
                        NewNets(mk.last[1], k, "ipv4"))

\* C12: the peer map the builder holds never has an entry under the local
\* public key, whatever records the sources publish
C12_NoLocalEntry == LocalKey \notin DOMAIN mk.b.c

\* a record under the local key was the last one given to a builder that
\* already holds other peers
C12_Witness ==
    /\ mk.last # <<>>
    /\ mk.last[1].p.public_key = LocalKey
    /\ mk.last[1].after = mk.b
    /\ DOMAIN mk.b.c # {}

\* the errors the last call pushed
NewErrs(l) == SubSeq(l.after.err, Len(l.before.err) + 1, Len(l.after.err))

\* the last call left the errors it found in place
ErrsKept(l) == SubSeq(l.after.err, 1, Len(l.before.err)) = l.before.err

\* the operator's [peer.<key>] table names another source for the record
SourceMismatch(gc, src, p) ==
    /\ p.public_key \in DOMAIN gc.peers
    /\ gc.peers[p.public_key].source # None
    /\ gc.peers[p.public_key].source # src.config.name

\* C13 as stated: a server or road-warrior record under the local key
\* pushes exactly one error, and it is important
C13_LocalKeyOneError ==
    (mk.last # <<>> /\ mk.last[1].p.public_key = LocalKey) =>
        /\ Len(NewErrs(mk.last[1])) = 1
        /\ NewErrs(mk.last[1])[1].important

\* C13 amended: a record under the local key never changes the peer map; a
\* road-warrior record pushes exactly one important error; a server record
\* pushes none, unless the operator's table names another source for the
\* local key, and then the one important error "peer source not allowed"
C13_LocalKeyErrors ==
    (mk.last # <<>> /\ mk.last[1].p.public_key = LocalKey) =>
        LET l == mk.last[1]
            e == NewErrs(l)
        IN  /\ l.after.c = l.before.c
            /\ ErrsKept(l)
            /\ IF SourceMismatch(mk.gc, l.src, l.p)
               THEN /\ Len(e) = 1 /\ e[1].important
                    /\ e[1].err = "peer source not allowed"
               ELSE IF l.kind = "road_warrior"
               THEN /\ Len(e) = 1 /\ e[1].important
                    /\ e[1].err = "the local peer cannot be a road warrior"
                    /\ e[1].peer = LocalKey
                    /\ e[1].src = l.src.config.name
               ELSE e = <<>>

\* a server record under the local key was skipped without an error by a
\* builder that already holds other peers
C13_Witness ==
    /\ mk.last # <<>>
    /\ mk.last[1].kind = "server"
    /\ mk.last[1].p.public_key = LocalKey
    /\ NewErrs(mk.last[1]) = <<>>
    /\ DOMAIN mk.b.c # {}

\* the last call reached insert_peer: a server record, or a road-warrior
\* record based on the local key from a source that allows them, that is
\* neither refused by the operator's table nor under the local key
Inserts(l) ==
    /\ ~SourceMismatch(mk.gc, l.src, l.p)
    /\ l.p.public_key # LocalKey
    /\ \/ l.kind = "server"
       \/ l.p.base = LocalKey /\ l.src.config.allow_road_warriors

\* how many of the errors in e carry the message msg
RECURSIVE CountErr(_, _)
CountErr(e, msg) ==
    IF e = <<>> THEN 0
    ELSE (IF Head(e).err = msg THEN 1 ELSE 0) + CountErr(Tail(e), msg)

\* C14: when a record is inserted under a key the map already holds, the
\* entry keeps its endpoint, preshared key and keepalive, exactly one
\* important "duplicate public key" error names the record's source and
\* key, and the record's allowed prefixes are appended to the entry
C14_DuplicateKey ==
    (mk.last # <<>> /\ Inserts(mk.last[1])
        /\ mk.last[1].p.public_key \in DOMAIN mk.last[1].before.c) =>
        LET l == mk.last[1]
            k == l.p.public_key
            e == NewErrs(l)
        IN  /\ l.after.c[k].endpoint = l.before.c[k].endpoint
            /\ l.after.c[k].psk = l.before.c[k].psk
            /\ l.after.c[k].keepalive = l.before.c[k].keepalive
            /\ ErrsKept(l)
            /\ CountErr(e, "duplicate public key") = 1
            /\ e[1] = [src |-> l.src.config.name, peer |-> k,
                       important |-> TRUE, err |-> "duplicate public key"]
            /\ l.after.c[k].ipv4
                   = l.before.c[k].ipv4 \o FilterNets(l.src.config.ipv4, l.p.ipv4)
            /\ l.after.c[k].ipv6
                   = l.before.c[k].ipv6 \o FilterNets(l.src.config.ipv6, l.p.ipv6)
            /\ \A k2 \in DOMAIN l.before.c \ {k} : l.after.c[k2] = l.before.c[k2]

\* a server record of another source, with another endpoint and keepalive,
\* came in under a key the map held, and brought prefixes along
C14_Witness ==
    /\ mk.last # <<>>
    /\ mk.last[1].kind = "server"
    /\ Inserts(mk.last[1])
    /\ mk.last[1].p.public_key \in DOMAIN mk.last[1].before.c
    /\ mk.origin[mk.last[1].p.public_key].src # mk.last[1].src.config.name
    /\ mk.last[1].before.c[mk.last[1].p.public_key].endpoint
           # mk.last[1].p.endpoint
    /\ NewNets(mk.last[1], mk.last[1].p.public_key, "ipv4") # <<>>

\* the key of the entry the last call merged its record into
Target(l) ==
    IF l.kind = "server" \/ l.p.base = LocalKey THEN l.p.public_key
    ELSE l.p.base

\* the last call reached add_peer
Merges(l) ==
    \/ Inserts(l)
    \/ /\ l.kind = "road_warrior"
       /\ ~SourceMismatch(mk.gc, l.src, l.p)
       /\ l.p.public_key # LocalKey
       /\ l.p.base # LocalKey
       /\ l.p.base \in DOMAIN l.before.c

\* the prefixes of nets that are in the allowed set, one by one
Kept(allowed, nets) == {n \in 1..Len(nets) : SetContains(allowed, nets[n])}

\* the errors of e that are not about a key the map already held
RECURSIVE MergeErrs(_)
MergeErrs(e) ==
    IF e = <<>> THEN <<>>
    ELSE IF Head(e).err = "duplicate public key" THEN MergeErrs(Tail(e))
         ELSE <<Head(e)>> \o MergeErrs(Tail(e))

\* C15: when a record is merged into an entry, exactly the prefixes its
\* source's allowed set of the same family contains are appended, in order;
\* if a prefix was dropped the merge records exactly one error for the
\* record, important iff no prefix of either family survived, and if none
\* was dropped the merge records no error
C15_MergeFilters ==
    (mk.last # <<>> /\ Merges(mk.last[1])) =>
        LET l == mk.last[1]
            k == Target(l)
            a4 == NewNets(l, k, "ipv4")
            a6 == NewNets(l, k, "ipv6")
            k4 == Kept(l.src.config.ipv4, l.p.ipv4)
            k6 == Kept(l.src.config.ipv6, l.p.ipv6)
            dropped == Cardinality(k4) < Len(l.p.ipv4)
                           \/ Cardinality(k6) < Len(l.p.ipv6)
            e == MergeErrs(NewErrs(l))
        IN  /\ Len(a4) = Cardinality(k4) /\ Len(a6) = Cardinality(k6)
            /\ \A n \in 1..Len(l.p.ipv4) :
                   (n \in k4) <=> (\E m \in 1..Len(a4) : a4[m] = l.p.ipv4[n])
            /\ \A n \in 1..Len(l.p.ipv6) :
                   (n \in k6) <=> (\E m \in 1..Len(a6) : a6[m] = l.p.ipv6[n])
            /\ OldNets(l, k, "ipv4") \o a4 = l.after.c[k].ipv4
            /\ OldNets(l, k, "ipv6") \o a6 = l.after.c[k].ipv6
            /\ ErrsKept(l)
            /\ IF dropped
               THEN /\ Len(e) = 1
                    /\ e[1].important <=> (k4 = {} /\ k6 = {})
                    /\ e[1].peer = l.p.public_key
                    /\ e[1].src = l.src.config.name
               ELSE e = <<>>

\* a record lost one prefix and kept another, which gave an error that is
\* not important
C15_Witness ==
    /\ mk.last # <<>>
    /\ Merges(mk.last[1])
    /\ NewNets(mk.last[1], Target(mk.last[1]), "ipv4") # <<>>
    /\ Len(NewNets(mk.last[1], Target(mk.last[1]), "ipv4"))
           < Len(mk.last[1].p.ipv4)
    /\ MergeErrs(NewErrs(mk.last[1])) # <<>>
    /\ ~MergeErrs(NewErrs(mk.last[1]))[1].important

\* the operator's [peer.<key>] table sets a keepalive for the key k
KeepaliveOverride(gc, k) ==
    IF k \in DOMAIN gc.peers THEN gc.peers[k].keepalive ELSE <<>>

\* the last call created the entry under its record's key
Creates(l) ==
    /\ l.p.public_key \in DOMAIN l.after.c
    /\ l.p.public_key \notin DOMAIN l.before.c

\* C16 as stated: the keepalive of an entry is the global clamp of the raw
\* keepalive, be that the keepalive of the record that created the entry or
\* the keepalive the operator set for the key
C16_KeepaliveClamped ==
    (mk.last # <<>> /\ Creates(mk.last[1])) =>
        LET l == mk.last[1]
            k == l.p.public_key
            o == KeepaliveOverride(mk.gc, k)
        IN  \/ l.after.c[k].keepalive = fix_keepalive(mk.gc, l.p.keepalive)
            \/ o # <<>> /\ l.after.c[k].keepalive = fix_keepalive(mk.gc, o[1])

\* C16 amended: an entry is created with the keepalive the operator set for
\* its key, taken as it is, and without one with the global clamp of the
\* keepalive of the record that creates it; no later call changes it
C16_KeepaliveClampedOrOverridden ==
    mk.last # <<>> =>
        LET l == mk.last[1]
            k == l.p.public_key
            o == KeepaliveOverride(mk.gc, k)
        IN  /\ Creates(l) =>
                l.after.c[k].keepalive
                    = IF o # <<>> THEN o[1]
                      ELSE fix_keepalive(mk.gc, l.p.keepalive)
            /\ \A k2 \in DOMAIN l.before.c :
                   /\ k2 \in DOMAIN l.after.c
                   /\ l.after.c[k2].keepalive = l.before.c[k2].keepalive

\* an entry was created with a keepalive the operator set below
\* min_keepalive, which the clamp would have raised
C16_Witness ==
    /\ mk.last # <<>>
    /\ Creates(mk.last[1])
    /\ KeepaliveOverride(mk.gc, mk.last[1].p.public_key) # <<>>
    /\ mk.b.c[mk.last[1].p.public_key].keepalive # 0
    /\ mk.b.c[mk.last[1].p.public_key].keepalive < mk.gc.min_keepalive

\* the last call had a road-warrior record with a base other than the
\* local key, that came as far as looking its base up
LooksUpBase(l) ==
    /\ l.kind = "road_warrior"
    /\ ~SourceMismatch(mk.gc, l.src, l.p)
    /\ l.p.public_key # LocalKey
    /\ l.p.base # LocalKey

\* the last call pushed one important error and left the peer map alone
Rejected(l) ==
    /\ l.after.c = l.before.c
    /\ ErrsKept(l)
    /\ Len(NewErrs(l)) = 1
    /\ NewErrs(l)[1].important

\* the key k is in the map because a server record created the entry
ServerEntry(l, k) ==
    k \in DOMAIN l.before.c /\ mk.origin[k].kind = "server"

\* C17 as stated: a road-warrior with a base other than the local key is
\* rejected with an important error, and adds no prefix, unless a server
\* record created the entry of its base
C17_ServerBaseOnly ==
    (mk.last # <<>> /\ LooksUpBase(mk.last[1])
        /\ ~ServerEntry(mk.last[1], mk.last[1].p.base)) =>
        Rejected(mk.last[1])

\* C18: whatever the order of the source list, a base that a road-warrior
\* was rejected for with "unknown base peer" is not the key of an entry a
\* server record created, and a road-warrior whose base is such an entry is
\* merged into it, its allowed prefixes appended
C18_ServersBeforeRoadWarriors ==
    /\ \A k \in mk.unknown :
           ~(k \in DOMAIN mk.b.c /\ mk.origin[k].kind = "server")
    /\ (mk.last # <<>> /\ LooksUpBase(mk.last[1])
            /\ ServerEntry(mk.last[1], mk.last[1].p.base)) =>
           LET l == mk.last[1]
           IN  /\ CountErr(NewErrs(l), "unknown base peer") = 0
               /\ l.after.c[l.p.base].ipv4
                      = l.before.c[l.p.base].ipv4
                            \o FilterNets(l.src.config.ipv4, l.p.ipv4)
               /\ l.after.c[l.p.base].ipv6
                      = l.before.c[l.p.base].ipv6
                            \o FilterNets(l.src.config.ipv6, l.p.ipv6)

\* a road-warrior of the first source of the list added a prefix to the
\* entry of its base, which a server record of the second source created
C18_Witness ==
    /\ mk.last # <<>>
    /\ LooksUpBase(mk.last[1])
    /\ ServerEntry(mk.last[1], mk.last[1].p.base)
    /\ mk.last[1].src.config.name = sources[1].config.name
    /\ mk.origin[mk.last[1].p.base].src = sources[2].config.name
    /\ NewNets(mk.last[1], mk.last[1].p.base, "ipv4") # <<>>

\* C19: a road-warrior record creates an entry under its own key only when
\* its base is the local key and its source allows road-warriors; with the
\* local key as base and a source that does not allow them it is skipped
\* with an important error; with any other base it creates no entry, and
\* its allowed prefixes are appended to the entry of its base when the map
\* holds one, the record being skipped as "unknown base peer" when not
C19_RoadWarriorEntry ==
    (mk.last # <<>> /\ mk.last[1].kind = "road_warrior") =>
        LET l == mk.last[1]
        IN  /\ DOMAIN l.after.c \ DOMAIN l.before.c \subseteq {l.p.public_key}
            /\ Creates(l) =>
                   l.p.base = LocalKey /\ l.src.config.allow_road_warriors
            /\ (/\ ~SourceMismatch(mk.gc, l.src, l.p)
                /\ l.p.public_key # LocalKey
                /\ l.p.base = LocalKey) =>
                   IF l.src.config.allow_road_warriors
                   THEN l.p.public_key \in DOMAIN l.after.c
                   ELSE /\ Rejected(l)
                        /\ NewErrs(l)[1].err
                               = "road warriors from this source not allowed"
            /\ LooksUpBase(l) =>
                   /\ DOMAIN l.after.c = DOMAIN l.before.c
                   /\ IF l.p.base \in DOMAIN l.before.c
                      THEN /\ l.after.c[l.p.base].ipv4
                                  = l.before.c[l.p.base].ipv4
                                        \o FilterNets(l.src.config.ipv4, l.p.ipv4)
                           /\ l.after.c[l.p.base].ipv6
                                  = l.before.c[l.p.base].ipv6
                                        \o FilterNets(l.src.config.ipv6, l.p.ipv6)
                           /\ \A k \in DOMAIN l.before.c \ {l.p.base} :
                                  l.after.c[k] = l.before.c[k]
                      ELSE /\ Rejected(l)
                           /\ NewErrs(l)[1].err = "unknown base peer"

\* the map holds a top-level road-warrior, and a road-warrior with another
\* base has just added a prefix to the entry of its base without getting an
\* entry of its own
C19_Witness ==
    /\ mk.last # <<>>
    /\ LooksUpBase(mk.last[1])
    /\ mk.last[1].p.base \in DOMAIN mk.last[1].before.c
    /\ NewNets(mk.last[1], mk.last[1].p.base, "ipv4") # <<>>
    /\ mk.last[1].p.public_key \notin DOMAIN mk.b.c
    /\ \E k \in DOMAIN mk.b.c : mk.origin[k].kind = "road_warrior"

\* C20: a server or road-warrior record for whose key the operator's table
\* names another source is skipped: the peer map stays as it was, no entry
\* created and no prefix appended, and exactly one error is recorded, the
\* important "peer source not allowed" for the record's source and key
C20_SourceRestriction ==
    (mk.last # <<>> /\ SourceMismatch(mk.gc, mk.last[1].src, mk.last[1].p)) =>
        /\ Rejected(mk.last[1])
        /\ NewErrs(mk.last[1])[1]
               = [src |-> mk.last[1].src.config.name,
                  peer |-> mk.last[1].p.public_key,
                  important |-> TRUE, err |-> "peer source not allowed"]

\* the source the operator names had its record accepted, and the same key
\* then came from the other source
C20_Witness ==
    /\ mk.last # <<>>
    /\ SourceMismatch(mk.gc, mk.last[1].src, mk.last[1].p)
    /\ mk.last[1].p.public_key \in DOMAIN mk.b.c
    /\ mk.last[1].p.ipv4 # <<>>
    /\ mk.last[1].after = mk.b

\* what the operator set for the key k in the [peer.<key>] table
Override(gc, k) ==
    IF k \in DOMAIN gc.peers THEN gc.peers[k]
    ELSE ConfigPeer(None, None, None, <<>>)

\* C32: an entry a record creates has its contact fields chosen with the
\* operator's overrides first: the endpoint is the override if set, else the
\* endpoint the server published (none for a road-warrior); the preshared
\* key is the override if set, else the key of the source; the keepalive is
\* the override if set, else the published keepalive clamped
C32_OverridesFirst ==
    (pc = "builder" /\ mk.last # <<>> /\ Creates(mk.last[1])) =>
        LET l == mk.last[1]
            k == l.p.public_key
            o == Override(mk.gc, k)
            ent == l.after.c[k]
        IN  /\ ent.endpoint = IF o.endpoint # None THEN o.endpoint
                              ELSE IF l.kind = "server" THEN l.p.endpoint
                              ELSE None
            /\ ent.psk = IF o.psk # None THEN o.psk ELSE l.src.config.psk
            /\ ent.keepalive = IF o.keepalive # <<>> THEN o.keepalive[1]
                               ELSE fix_keepalive(mk.gc, l.p.keepalive)

\* a road-warrior record created an entry with the endpoint the operator
\* set and, no key being set for it, the preshared key of its source
C32_Witness ==
    /\ pc = "builder" /\ mk.last # <<>> /\ Creates(mk.last[1])
    /\ mk.last[1].kind = "road_warrior"
    /\ Override(mk.gc, mk.last[1].p.public_key).endpoint # None
    /\ Override(mk.gc, mk.last[1].p.public_key).psk = None
    /\ mk.b.c[mk.last[1].p.public_key].endpoint = "EO"
    /\ mk.b.c[mk.last[1].p.public_key].psk = "P1"

(***************************************************************************)
(* Manager::make_config on its own: slots holding documents with and       *)
(* without a `next` block, built at any wall-clock time.                   *)
(***************************************************************************)
\* the latest wall-clock time make_config is called at
MaxTs == 5

\* the activation times a `next` block may carry: two near ones and one
\* further away than FarFuture from every time below 3
ActivationTimes == {2, 4, FarFuture + 3}

\* the document a source publishes: its `current` view, and with `at` given
\* a `next` view that moves its server to another endpoint
ViewDoc(name, at) ==
    LET k == IF name = SourceNames[1] THEN "K1" ELSE "K3"
    IN  [config |-> [servers |-> <<Server(k, "E1", 25, <<Host(1)>>, <<>>)>>,
                     road_warriors |-> <<>>],
         next |-> IF at = <<>> THEN <<>>
                  ELSE <<[update_at |-> at[1],
                          config |-> [servers |-> <<Server(k, "E2", 25, <<Host(1)>>, <<>>)>>,
                                      road_warriors |-> <<>>]]>>]

InitCfg ==
    /\ pc = "make_config" /\ proc = 1 /\ exitCode = <<>> /\ clock = 0
    /\ refresh = 0
    /\ \E order \in SourceOrders :
       \E at \in [1..NSources -> {<<>>} \cup {<<a>> : a \in ActivationTimes}] :
           sources = [i \in 1..NSources |->
                         [NewSlot(order[i], 0) EXCEPT !.data = ViewDoc(order[i], at[i])]]
    /\ s = <<>> /\ step = "fetch1"
    /\ current = EmptyConfig
    /\ rnow = 0 /\ t_refresh = 0 /\ tnow = 0 /\ built = NoBuild /\ wake = 0
    /\ first = TRUE /\ examined = <<>> /\ log = <<>>
    /\ loaded = FALSE /\ lastPersist = "none" /\ prevInputs = <<>>
    /\ attempts = 0 /\ tried = <<>>
    /\ iface = EmptyConfig /\ stateFile = Missing /\ stateTmp = FALSE
    /\ cache = [n \in SourceSet |-> Missing]
    /\ upd = NoUpdate /\ mk = NoMake /\ lastDiff = NoDiff /\ pset = NoSet /\ fu = NoFile
    /\ env = [results |-> {}, fetch_time |-> 0, oversleep |-> 0,
              cache_writes |-> {}, restarts |-> 0]

\* Manager::make_config(public_key, ts)
MakeConfig ==
    /\ pc = "make_config"
    /\ \E ts \in 0..MaxTs :
          LET r == make_config(sources, GlobalConfig, LocalKey, ts)
          IN  built' = [cfg |-> r.cfg, errs |-> r.errs, t_cfg |-> r.t_cfg,
                        inputs |-> <<>>, ts |-> <<ts>>]
    /\ UNCHANGED <<pc, proc, exitCode, clock, refresh, sources, s, step,
                   current, iface, stateFile, stateTmp, cache, rnow, t_refresh,
                   tnow, wake, first, examined, log, loaded, lastPersist,
                   prevInputs, attempts, tried, upd, env, mk, lastDiff, pset, fu>>

NextCfg == MakeConfig

SpecCfg == InitCfg /\ [][NextCfg]_vars

(***************************************************************************)
(* Properties of Manager::make_config, checked under SpecCfg.              *)
(***************************************************************************)
\* the slot has a `next` block whose activation time has come at ts
Activated(src, ts) ==
    src.data.next # <<>> /\ src.data.next[1].update_at <= ts

\* the activation times of the `next` blocks still to come at ts
Pending(srcs, ts) ==
    {srcs[i].data.next[1].update_at :
        i \in {j \in 1..Len(srcs) : srcs[j].data.next # <<>> /\ ~Activated(srcs[j], ts)}}

\* the slots with the document each is to be read as at ts, and nothing
\* left to choose
Resolved(srcs, ts) ==
    [i \in 1..Len(srcs) |->
        [srcs[i] EXCEPT !.data =
            [config |-> IF Activated(srcs[i], ts) THEN srcs[i].data.next[1].config
                        ELSE srcs[i].data.config,
             next |-> <<>>]]]

\* the least element of a non-empty set of times
Earliest(S) == CHOOSE x \in S : \A y \in S : x <= y

\* C33 as stated: for each source the builder uses the `next` view exactly
\* when the document has a `next` block whose activation time is not after
\* the wall-clock time of the tick, else the `current` view; and t_cfg is the
\* earliest activation time among the `next` blocks not yet activated
C33_ViewsAndEarliest ==
    (pc = "make_config" /\ built # NoBuild) =>
        LET ts == built.ts[1]
        IN  /\ built.cfg = make_config(Resolved(sources, ts), GlobalConfig, LocalKey, ts).cfg
            /\ Pending(sources, ts) # {} => built.t_cfg = Earliest(Pending(sources, ts))

\* C33 amended: the views are chosen as stated; t_cfg is the earliest
\* activation time among the `next` blocks not yet activated, but never
\* later than 2^20 seconds after the wall-clock time of the tick, and is
\* that horizon when no `next` block is waiting
C33_ViewsAndEarliestCapped ==
    (pc = "make_config" /\ built # NoBuild) =>
        LET ts == built.ts[1]
        IN  /\ built.cfg = make_config(Resolved(sources, ts), GlobalConfig, LocalKey, ts).cfg
            /\ built.t_cfg = Earliest(Pending(sources, ts) \cup {ts + FarFuture})

\* one source is read through its `next` view while the `next` block of the
\* other is still to come, and t_cfg is the time that one activates
C33_Witness ==
    /\ pc = "make_config" /\ built # NoBuild
    /\ \E i, j \in 1..NSources :
          /\ Activated(sources[i], built.ts[1])
          /\ sources[j].data.next # <<>> /\ ~Activated(sources[j], built.ts[1])
          /\ built.t_cfg = sources[j].data.next[1].update_at
    /\ \E k \in DOMAIN built.cfg : built.cfg[k].endpoint = "E2"
    /\ \E k \in DOMAIN built.cfg : built.cfg[k].endpoint = "E1"

(***************************************************************************)
(* Properties of the tick, checked under SpecTick.                         *)
(***************************************************************************)
\* the least next_update among the slots
EarliestDeadline(srcs) == Earliest({srcs[i].next_update : i \in 1..Len(srcs)})

\* the monotonic instants at which the `next` blocks still waiting at the
\* wall-clock time sysnow activate, sysnow being now on the monotonic clock
PendingInstants(srcs, now, sysnow) ==
    {now + (a - sysnow) : a \in Pending(srcs, sysnow)}

\* update() returns: what Manager::update had in hand and what it returned
Returns == pc = "schedule" /\ pc' = "sleep"

\* at the end of a tick the config in force is the one built from the
\* views due at the wall-clock time of the tick
NextApplied ==
    pc = "schedule" =>
        /\ current = built.cfg
        /\ built.cfg = make_config(Resolved(sources, SystemTimeAt(tnow)),
                                   GlobalConfig, LocalKey, SystemTimeAt(tnow)).cfg

\* C34 as stated: update() returns max(now_m, min(t_cfg, t_refresh)) with
\* t_cfg = now_m + max(0, t_cfg_wall - now_s); the wake instant is never
\* before now_m and never later than the earliest pending activation or the
\* earliest slot deadline, and a `next` block whose activation time has
\* passed is applied by the tick
C34_WakeBounded ==
    [][ /\ NextApplied
        /\ Returns =>
            LET t_cfg == tnow + Max(0, built.t_cfg - SystemTimeAt(tnow))
            IN  /\ wake' = Max(tnow, Min(t_cfg, t_refresh))
                /\ wake' >= tnow
                /\ \A a \in PendingInstants(sources, tnow, SystemTimeAt(tnow)) : wake' <= a
                /\ wake' <= EarliestDeadline(sources) ]_vars

\* C34 amended: the same, the wake instant being later than the earliest
\* slot deadline only when that deadline has passed by the time update()
\* reads the clock, and then it is now_m
C34_WakeBoundedOrNow ==
    [][ /\ NextApplied
        /\ Returns =>
            LET t_cfg == tnow + Max(0, built.t_cfg - SystemTimeAt(tnow))
            IN  /\ wake' = Max(tnow, Min(t_cfg, t_refresh))
                /\ wake' >= tnow
                /\ \A a \in PendingInstants(sources, tnow, SystemTimeAt(tnow)) : wake' <= a
                /\ wake' <= Max(tnow, EarliestDeadline(sources)) ]_vars

\* update() has returned the instant a `next` block activates
C34_Witness ==
    /\ pc = "sleep" /\ ~first /\ wake > clock
    /\ PendingInstants(sources, clock, SystemTimeAt(clock)) = {wake}

\* how many fetches the tick has logged
Fetches(q) == Cardinality({n \in 1..Len(q) : q[n] = "fetch"})

\* refresh() examines its next slot
Examines == pc = "refresh" /\ Len(examined') = Len(examined) + 1

\* C35: in one refresh phase a slot whose next_update is not after the
\* monotonic time at which it is examined is fetched exactly once; a slot
\* not yet due is not fetched and keeps its document, deadline and backoff;
\* no other slot changes; and the t_refresh returned is the least
\* next_update the slots have after the phase, capped at the start of the
\* phase plus the refresh period
C35_RefreshPhase ==
    [][ /\ Examines =>
            LET i == Len(examined) + 1
            IN  /\ examined'[i].at = rnow
                /\ \A j \in 1..Len(sources) : j # i => sources'[j] = sources[j]
                /\ sources[i].next_update <= rnow =>
                      /\ examined'[i].fetched
                      /\ Fetches(log') = Fetches(log) + 1
                      /\ sources'[i].next_update >= clock'
                /\ sources[i].next_update > rnow =>
                      /\ ~examined'[i].fetched
                      /\ Fetches(log') = Fetches(log)
                      /\ sources'[i] = sources[i]
                      /\ clock' = clock
        /\ (pc = "refresh" /\ Len(examined) = NSources) =>
            /\ Fetches(log) = Cardinality({j \in 1..NSources : examined[j].fetched})
            /\ t_refresh = Min(examined[1].at + refresh, EarliestDeadline(sources)) ]_vars

\* a phase in which the first slot was not yet due and the second was
\* fetched, the t_refresh returned being the deadline of the first
C35_Witness ==
    /\ pc = "refresh" /\ Len(examined) = NSources
    /\ ~examined[1].fetched /\ examined[2].fetched
    /\ t_refresh = sources[1].next_update
    /\ t_refresh < sources[2].next_update

\* the driver loop is running: Manager::new has returned
LoopRuns == pc \in {"sleep", "refresh", "apply", "persist", "persist2", "schedule"}

\* refresh() has just fetched slot i
FetchedNow(i) == pc = "refresh" /\ Len(examined) >= i /\ examined[i].fetched

\* fetch_source fails no more
Reachable == [ok |-> FALSE] \notin env.results

\* the slot holds a document it was served and no backoff
Renewed(i) ==
    /\ sources[i].backoff = <<>>
    /\ \E r \in env.results : r.ok /\ sources[i].data = r.doc

\* C40, its liveness half up to the horizon of the clock: while the loop
\* runs and no apply fails, a slot whose next_update the clock can reach is
\* fetched again, and once the sources are reachable again that fetch
\* replaces the document and clears the backoff
RefreshLive ==
    \A i \in 1..NSources :
        (LoopRuns /\ sources[i].next_update <= MaxTime)
            ~> (FetchedNow(i) /\ (Reachable => Renewed(i)))

\* after a fetch attempt at the monotonic time t the slot's next_update is
\* at most t + R
DeadlineWithinPeriod ==
    [][ (Examines /\ examined'[Len(examined) + 1].fetched)
            => /\ rnow' = clock'
               /\ sources'[Len(examined) + 1].next_update <= rnow' + refresh ]_vars

PeerPool ==
    { [endpoint |-> "E1", psk |-> "P1", keepalive |-> 25,
       ipv4 |-> <<Host(1)>>, ipv6 |-> <<>>],
      [endpoint |-> "E1", psk |-> "P1", keepalive |-> 10,
       ipv4 |-> <<Host(1)>>, ipv6 |-> <<>>],
      [endpoint |-> "E1", psk |-> None, keepalive |-> 25,
       ipv4 |-> <<Host(1)>>, ipv6 |-> <<>>],
      [endpoint |-> None, psk |-> "P1", keepalive |-> 25,
       ipv4 |-> <<Host(1)>>, ipv6 |-> <<>>],
      [endpoint |-> "E2", psk |-> "P2", keepalive |-> 25,
       ipv4 |-> <<Host(1), Host(2)>>, ipv6 |-> <<Host(0)>>] }

\* the preshared keys of the pool
Secrets == {p.psk : p \in PeerPool} \ {None}

DiffKeys == {"K1", "K2"}

\* model::Config values over the keys and the pool
ConfigPool ==
    UNION { [ks -> PeerPool] : ks \in SUBSET DiffKeys }

InitDiff ==
    /\ pc = "apply_diff" /\ proc = 1 /\ exitCode = <<>> /\ clock = 0
    /\ refresh = 0
    /\ sources = <<>> /\ s = <<>> /\ step = "fetch1"
    /\ current = EmptyConfig
    /\ rnow = 0 /\ t_refresh = 0 /\ tnow = 0 /\ built = NoBuild /\ wake = 0
    /\ first = TRUE /\ examined = <<>> /\ log = <<>>
    /\ loaded = FALSE /\ lastPersist = "none" /\ prevInputs = <<>>
    /\ attempts = 0 /\ tried = <<>>
    /\ iface = EmptyConfig /\ stateFile = Missing /\ stateTmp = FALSE
    /\ cache = [n \in SourceSet |-> Missing]
    /\ upd = NoUpdate /\ mk = NoMake /\ pset = NoSet /\ fu = NoFile
    /\ env = [results |-> {}, fetch_time |-> 0, oversleep |-> 0,
              cache_writes |-> {}, restarts |-> 0]
    /\ lastDiff = NoDiff

\* Device::apply_diff(current, new), the `wg set` it spawns succeeding
DiffApply ==
    /\ pc = "apply_diff"
    /\ \E new \in ConfigPool :
          LET cmd == apply_diff(current, new)
          IN  /\ lastDiff' = [called |-> TRUE, old |-> current, new |-> new,
                              cmd |-> cmd, argv |-> Argv(cmd.args),
                              dev |-> iface]
              /\ iface' = IF cmd.spawn THEN WgSet(iface, cmd.args, cmd.stdin)
                          ELSE iface
              /\ current' = new
    /\ UNCHANGED <<pc, proc, exitCode, clock, refresh, sources, s, step,
                   stateFile, stateTmp, cache, rnow, t_refresh, tnow, built,
                   wake, first, examined, log, loaded, lastPersist, prevInputs,
                   attempts, tried, upd, env, mk, pset, fu>>

NextDiff == DiffApply

SpecDiff == InitDiff /\ [][NextDiff]_vars

(***************************************************************************)
(* Properties of Device::apply_diff, checked under SpecDiff.               *)
(***************************************************************************)
\* the argument groups of the command that name the key k
GroupsOf(cmd, k) == {n \in 1..Len(cmd.args) : cmd.args[n].peer = k}

\* C21: apply_diff(C, C) emits no argument group at all, neither for a peer
\* nor a removal, and in any call a peer whose old and new entries are
\* equal has no argument group
C21_EqualPeersSkipped ==
    lastDiff.called =>
        /\ lastDiff.old = lastDiff.new =>
               lastDiff.cmd.args = <<>> /\ lastDiff.cmd.stdin = <<>>
        /\ \A k \in DOMAIN lastDiff.new :
               (k \in DOMAIN lastDiff.old /\ lastDiff.old[k] = lastDiff.new[k])
                   => GroupsOf(lastDiff.cmd, k) = {}

\* apply_diff was called with the same config, of two peers, as old and new
C21_Witness ==
    /\ lastDiff.called
    /\ lastDiff.old = lastDiff.new
    /\ DOMAIN lastDiff.new = DiffKeys

\* C22: when apply_diff has no argument group to emit, neither for a peer
\* nor a removal, it does not run the control utility
C22_NothingToDoNoSpawn ==
    (lastDiff.called /\ lastDiff.cmd.args = <<>>) => ~lastDiff.cmd.spawn

\* the preshared keys of the peers of `new` that are new or changed, in the
\* order of the argument groups
RECURSIVE ChangedPsks(_, _, _)
ChangedPsks(old, new, keys) ==
    IF keys = <<>> THEN <<>>
    ELSE LET k == Head(keys)
         IN  (IF (k \notin DOMAIN old \/ old[k] # new[k]) /\ new[k].psk # None
              THEN <<new[k].psk>> ELSE <<>>)
             \o ChangedPsks(old, new, Tail(keys))

RemovalsOf(cmd, k) == {n \in GroupsOf(cmd, k) : cmd.args[n].remove}

\* C28: the command has one `peer K remove` for every key K that is in old
\* and not in new, and no removal for any other key
C28_RemovalsExact ==
    lastDiff.called =>
        \A k \in DiffKeys :
            Cardinality(RemovalsOf(lastDiff.cmd, k))
                = IF k \in DOMAIN lastDiff.old /\ k \notin DOMAIN lastDiff.new
                  THEN 1 ELSE 0

\* one peer of old is gone from new and the other is there, changed
C28_Witness ==
    /\ lastDiff.called
    /\ DOMAIN lastDiff.old = DiffKeys
    /\ Cardinality(DOMAIN lastDiff.new) = 1
    /\ \E k \in DOMAIN lastDiff.new : lastDiff.new[k] # lastDiff.old[k]
    /\ \E k \in DiffKeys : RemovalsOf(lastDiff.cmd, k) # {}

\* the keys of `new` whose entry is new or differs from the one in `old`
ChangedKeys(old, new) ==
    {k \in DOMAIN new : k \notin DOMAIN old \/ old[k] # new[k]}

\* C29: the argument group of every key of new whose entry is new or
\* changed has `persistent-keepalive` with the keepalive of the new entry
C29_KeepaliveEmitted ==
    lastDiff.called =>
        \A k \in ChangedKeys(lastDiff.old, lastDiff.new) :
            \E n \in GroupsOf(lastDiff.cmd, k) :
                lastDiff.cmd.args[n].keepalive = <<lastDiff.new[k].keepalive>>

\* the preshared key the entry of k has in the config c, None without entry
PskOf(c, k) == IF k \in DOMAIN c THEN c[k].psk ELSE None

\* the lines of standard input the groups before the n-th one read
RECURSIVE StdinBefore(_, _)
StdinBefore(args, n) ==
    IF n <= 1 THEN 0
    ELSE (IF ReadsStdin(args[n - 1]) THEN 1 ELSE 0) + StdinBefore(args, n - 1)

\* the line of standard input the n-th group reads, "" beyond the end
StdinLine(cmd, n) ==
    IF StdinBefore(cmd.args, n) + 1 <= Len(cmd.stdin)
    THEN cmd.stdin[StdinBefore(cmd.args, n) + 1] ELSE ""

\* C30: the argument group of a new or changed peer has a preshared-key
\* option, read from standard input, exactly when the old and the new
\* preshared key differ; the line it reads is the new key, and the empty
\* line when the key is being cleared
C30_PskWhenChanged ==
    lastDiff.called =>
        \A k \in ChangedKeys(lastDiff.old, lastDiff.new) :
            \A n \in GroupsOf(lastDiff.cmd, k) :
                LET oldpsk == PskOf(lastDiff.old, k)
                    newpsk == lastDiff.new[k].psk
                IN  /\ ReadsStdin(lastDiff.cmd.args[n]) <=> (oldpsk # newpsk)
                    /\ ReadsStdin(lastDiff.cmd.args[n]) =>
                           StdinLine(lastDiff.cmd, n)
                               = IF newpsk = None THEN "" ELSE newpsk

\* the groups of the command that carry a preshared-key option, in order
PskGroups(args) == SelectSeq(args, ReadsStdin)

\* C31: in every call of apply_diff the lines written to the standard input
\* of the child are as many as the preshared-key options on the command
\* line, and the i-th line is the key of the peer whose group holds the
\* i-th such option
C31_StdinMatchesPskArgs ==
    (pc = "apply_diff" /\ lastDiff.called) =>
        LET groups == PskGroups(lastDiff.cmd.args)
        IN  /\ Len(lastDiff.cmd.stdin) = Len(groups)
            /\ \A n \in 1..Len(groups) :
                  /\ groups[n].peer \in DOMAIN lastDiff.new
                  /\ lastDiff.cmd.stdin[n] = lastDiff.new[groups[n].peer].psk

\* a call that sends two different keys
C31_Witness ==
    /\ pc = "apply_diff" /\ lastDiff.called
    /\ Len(PskGroups(lastDiff.cmd.args)) = 2
    /\ lastDiff.cmd.stdin[1] # lastDiff.cmd.stdin[2]

(***************************************************************************)
(* A prefix set exercised on its own: built by new() or from a vector of   *)
(* valid prefixes, then grown by insert.                                   *)
(***************************************************************************)
\* how many prefixes the vector a set is built from may hold here
MaxSeed == 2
\* how many prefixes the vector may hold where the vector itself is kept
MaxList == 3

\* every prefix that passes is_valid
ValidNets ==
    {n \in [address : 0..(Pow2(BITS) - 1), prefix_len : 0..BITS] : is_valid(n)}

\* the vectors of at most n valid prefixes: any order, duplicates included
Vectors(n) == UNION { [1..k -> ValidNets] : k \in 0..n }

Elems(v) == {v[k] : k \in 1..Len(v)}

InitSet ==
    /\ pc = "ipset" /\ proc = 1 /\ exitCode = <<>> /\ clock = 0
    /\ refresh = 0
    /\ sources = <<>> /\ s = <<>> /\ step = "fetch1"
    /\ current = EmptyConfig
    /\ rnow = 0 /\ t_refresh = 0 /\ tnow = 0 /\ built = NoBuild /\ wake = 0
    /\ first = TRUE /\ examined = <<>> /\ log = <<>>
    /\ loaded = FALSE /\ lastPersist = "none" /\ prevInputs = <<>>
    /\ attempts = 0 /\ tried = <<>>
    /\ iface = EmptyConfig /\ stateFile = Missing /\ stateTmp = FALSE
    /\ cache = [n \in SourceSet |-> Missing]
    /\ upd = NoUpdate /\ mk = NoMake /\ lastDiff = NoDiff
    /\ env = [results |-> {}, fetch_time |-> 0, oversleep |-> 0,
              cache_writes |-> {}, restarts |-> 0]
    /\ pset = NoSet /\ fu = NoFile

\* the same, every operation leaving its argument and the set it acted on
\* next to the result
InitSetTrace ==
    /\ pc = "ipset_trace" /\ proc = 1 /\ exitCode = <<>> /\ clock = 0
    /\ refresh = 0
    /\ sources = <<>> /\ s = <<>> /\ step = "fetch1"
    /\ current = EmptyConfig
    /\ rnow = 0 /\ t_refresh = 0 /\ tnow = 0 /\ built = NoBuild /\ wake = 0
    /\ first = TRUE /\ examined = <<>> /\ log = <<>>
    /\ loaded = FALSE /\ lastPersist = "none" /\ prevInputs = <<>>
    /\ attempts = 0 /\ tried = <<>>
    /\ iface = EmptyConfig /\ stateFile = Missing /\ stateTmp = FALSE
    /\ cache = [n \in SourceSet |-> Missing]
    /\ upd = NoUpdate /\ mk = NoMake /\ lastDiff = NoDiff
    /\ env = [results |-> {}, fetch_time |-> 0, oversleep |-> 0,
              cache_writes |-> {}, restarts |-> 0]
    /\ pset = NoSet /\ fu = NoFile

\* Ipv4Set::from(vec) on a fresh vector
SetFrom ==
    /\ pc \in {"ipset", "ipset_trace"} /\ pset.op = "none"
    /\ \E v \in Vectors(IF pc = "ipset" THEN MaxSeed ELSE MaxList) :
          pset' = IF pc = "ipset"
                  THEN [nets |-> from_vec(v), op |-> "from"]
                  ELSE [nets |-> from_vec(v), op |-> "from", arg |-> v]
    /\ UNCHANGED <<pc, proc, exitCode, clock, refresh, sources, s, step,
                   current, iface, stateFile, stateTmp, cache, rnow, t_refresh,
                   tnow, built, wake, first, examined, log, loaded, lastPersist,
                   prevInputs, attempts, tried, upd, env, mk, lastDiff, fu>>

\* Ipv4Set::insert(net)
SetInsert ==
    /\ pc \in {"ipset", "ipset_trace"}
    /\ \E net \in ValidNets :
          pset' = IF pc = "ipset"
                  THEN [nets |-> insert(pset.nets, net), op |-> "insert"]
                  ELSE [nets |-> insert(pset.nets, net), op |-> "insert",
                        arg |-> net, before |-> pset.nets]
    /\ UNCHANGED <<pc, proc, exitCode, clock, refresh, sources, s, step,
                   current, iface, stateFile, stateTmp, cache, rnow, t_refresh,
                   tnow, built, wake, first, examined, log, loaded, lastPersist,
                   prevInputs, attempts, tried, upd, env, mk, lastDiff, fu>>

NextSet == SetFrom \/ SetInsert

SpecSet == InitSet /\ [][NextSet]_vars

SpecSetTrace == InitSetTrace /\ [][NextSet]_vars

(***************************************************************************)
(* The binary serde form of a prefix (model/ip.rs): the octets of the      *)
(* address followed by one byte of prefix length.                          *)
(***************************************************************************)
\* the octets an address of BITS bits takes
Bytes == (BITS + 7) \div 8

\* Ipv4Addr::octets: n octets, the most significant first
RECURSIVE octets(_, _)
octets(a, n) ==
    IF n = 0 THEN <<>> ELSE Append(octets(a \div 256, n - 1), a % 256)

\* From<[u8; N]> for Ipv4Addr
RECURSIVE from_octets(_)
from_octets(b) ==
    IF b = <<>> THEN 0 ELSE from_octets(Front(b)) * 256 + b[Len(b)]

\* Serialize for Ipv4Net, not human readable
serialize_bin(net) == Append(octets(net.address, Bytes), net.prefix_len)

\* Deserialize for Ipv4Net, not human readable: Ok(prefix) or Err
deserialize_bin(buf) ==
    LET r == [address |-> from_octets(SubSeq(buf, 1, Bytes)),
              prefix_len |-> buf[Bytes + 1]]
    IN  IF is_valid(r) THEN [ok |-> FALSE]
        ELSE [ok |-> TRUE, v |-> r]

\* the values the prefix-length byte is tried with: every length of the
\* address width and as many beyond it
PrefixBytes == 0..(2 * BITS)

\* the buffers a deserializer may be handed
Buffers ==
    {Append(octets(a, Bytes), l) : a \in 0..(Pow2(BITS) - 1), l \in PrefixBytes}

InitBin ==
    /\ pc = "ipbin" /\ proc = 1 /\ exitCode = <<>> /\ clock = 0
    /\ refresh = 0
    /\ sources = <<>> /\ s = <<>> /\ step = "fetch1"
    /\ current = EmptyConfig
    /\ rnow = 0 /\ t_refresh = 0 /\ tnow = 0 /\ built = NoBuild /\ wake = 0
    /\ first = TRUE /\ examined = <<>> /\ log = <<>>
    /\ loaded = FALSE /\ lastPersist = "none" /\ prevInputs = <<>>
    /\ attempts = 0 /\ tried = <<>>
    /\ iface = EmptyConfig /\ stateFile = Missing /\ stateTmp = FALSE
    /\ cache = [n \in SourceSet |-> Missing]
    /\ upd = NoUpdate /\ mk = NoMake /\ lastDiff = NoDiff
    /\ env = [results |-> {}, fetch_time |-> 0, oversleep |-> 0,
              cache_writes |-> {}, restarts |-> 0]
    /\ pset = NoSet /\ fu = NoFile

\* a buffer is deserialized
BinDeserialize ==
    /\ pc = "ipbin"
    /\ \E buf \in Buffers :
          pset' = [nets |-> <<>>, op |-> "deserialize", buf |-> buf,
                   res |-> deserialize_bin(buf)]
    /\ UNCHANGED <<pc, proc, exitCode, clock, refresh, sources, s, step,
                   current, iface, stateFile, stateTmp, cache, rnow, t_refresh,
                   tnow, built, wake, first, examined, log, loaded, lastPersist,
                   prevInputs, attempts, tried, upd, env, mk, lastDiff, fu>>

\* a prefix held in memory, valid or not, is serialized and the bytes are
\* deserialized
BinRoundTrip ==
    /\ pc = "ipbin"
    /\ \E net \in [address : 0..(Pow2(BITS) - 1), prefix_len : PrefixBytes] :
          pset' = [nets |-> <<net>>, op |-> "round trip",
                   buf |-> serialize_bin(net),
                   res |-> deserialize_bin(serialize_bin(net))]
    /\ UNCHANGED <<pc, proc, exitCode, clock, refresh, sources, s, step,
                   current, iface, stateFile, stateTmp, cache, rnow, t_refresh,
                   tnow, built, wake, first, examined, log, loaded, lastPersist,
                   prevInputs, attempts, tried, upd, env, mk, lastDiff, fu>>

NextBin == BinDeserialize \/ BinRoundTrip

SpecBin == InitBin /\ [][NextBin]_vars

\* the prefix the bytes of a buffer spell
Spelled(buf) ==
    [address |-> from_octets(SubSeq(buf, 1, Bytes)), prefix_len |-> buf[Bytes + 1]]

\* C36: deserializing the binary form of a prefix succeeds exactly when the
\* prefix is valid, so that serializing a valid prefix and deserializing the
\* bytes gives the prefix back, and every invalid prefix is rejected
C36_BinarySucceedsIffValid ==
    /\ (pc = "ipbin" /\ pset.op = "deserialize") =>
          /\ pset.res.ok <=> is_valid(Spelled(pset.buf))
          /\ pset.res.ok => pset.res.v = Spelled(pset.buf)
    /\ (pc = "ipbin" /\ pset.op = "round trip") =>
          IF is_valid(pset.nets[1])
          THEN pset.res = [ok |-> TRUE, v |-> pset.nets[1]]
          ELSE ~pset.res.ok

(***************************************************************************)
(* Properties of the prefix sets, checked under SpecSet and SpecSetTrace.  *)
(***************************************************************************)
\* the addresses a prefix stands for
Addrs(net) ==
    {a \in 0..(Pow2(BITS) - 1) :
        a \div Pow2(BITS - net.prefix_len) = net.address \div Pow2(BITS - net.prefix_len)}

\* the address space a set covers
Coverage(v) == UNION {Addrs(v[k]) : k \in 1..Len(v)}

\* two prefixes of the same length that are the two halves of one prefix
Halves(a, b) ==
    /\ a.prefix_len = b.prefix_len /\ a.prefix_len # 0 /\ a # b
    /\ Addrs(a) \cup Addrs(b) = Addrs([a EXCEPT !.prefix_len = @ - 1])

Canonical(v) ==
    /\ \A k \in 1..Len(v) : is_valid(v[k])
    /\ \A k \in 1..(Len(v) - 1) : NetLess(v[k], v[k + 1])
    /\ \A k, l \in 1..Len(v) : k # l => ~NetContains(v[k], v[l])
    /\ \A k, l \in 1..Len(v) : ~Halves(v[k], v[l])

\* C24: a set built by new() or from a vector of valid prefixes, and grown by
\* any sequence of inserts, is canonical: strictly sorted, no element inside
\* another, no two halves of one prefix both present
C24_InsertKeepsCanonical == Canonical(pset.nets)

\* a set an insert produced that holds prefixes of three lengths
C24_Witness ==
    /\ pc = "ipset" /\ pset.op = "insert"
    /\ pset.nets = <<Net(0, 1), Host(2), Net(Pow2(BITS - 1), BITS - 1)>>

\* C25: on a canonical set, contains(q) is true exactly when some element
\* contains q: true for every element, false for a prefix outside the
\* coverage
C25_ContainsIffCovered ==
    pc = "ipset" =>
        \A q \in ValidNets :
            /\ SetContains(pset.nets, q) <=> \E e \in Elems(pset.nets) : NetContains(e, q)
            /\ q \in Elems(pset.nets) => SetContains(pset.nets, q)
            /\ Addrs(q) \cap Coverage(pset.nets) = {} => ~SetContains(pset.nets, q)

\* a set where one lookup succeeds through a wider element, one fails on a
\* prefix the set covers only in part, and one fails outside the coverage
C25_Witness ==
    /\ pc = "ipset" /\ pset.nets # <<>>
    /\ \E q \in ValidNets : SetContains(pset.nets, q) /\ q \notin Elems(pset.nets)
    /\ \E q \in ValidNets : /\ ~SetContains(pset.nets, q)
                            /\ Addrs(q) \cap Coverage(pset.nets) # {}
    /\ \E q \in ValidNets : /\ ~SetContains(pset.nets, q)
                            /\ Addrs(q) \cap Coverage(pset.nets) = {}

\* the other half of the prefix one bit shorter
Sibling(net) ==
    [net EXCEPT !.address = Xor(@, Pow2(BITS - net.prefix_len), BITS)]

\* the prefix one bit shorter that holds net
Parent(net) ==
    [address |-> net.address - (net.address % Pow2(BITS - net.prefix_len + 1)),
     prefix_len |-> net.prefix_len - 1]

\* C26: insert(p) on a canonical set makes the coverage the old coverage
\* plus the addresses of p; a host prefix inserted next to its sibling
\* yields the prefix one bit shorter, and so on upwards; the zero-length
\* prefix inserted leaves exactly that one prefix
C26_InsertAddsCoverage ==
    (pc = "ipset_trace" /\ pset.op = "insert") =>
        /\ Coverage(pset.nets) = Coverage(pset.before) \cup Addrs(pset.arg)
        /\ pset.arg.prefix_len = 0 => pset.nets = <<pset.arg>>
        /\ (pset.arg.prefix_len = BITS /\ Sibling(pset.arg) \in Elems(pset.before)) =>
              /\ \E e \in Elems(pset.nets) : NetContains(e, Parent(pset.arg))
              /\ pset.arg \notin Elems(pset.nets)
              /\ Sibling(pset.arg) \notin Elems(pset.nets)
              /\ Sibling(Parent(pset.arg)) \in Elems(pset.before) =>
                    \E e \in Elems(pset.nets) : NetContains(e, Parent(Parent(pset.arg)))
              /\ Sibling(Parent(pset.arg)) \notin Elems(pset.before) =>
                    Parent(pset.arg) \in Elems(pset.nets)

\* a host prefix inserted next to its sibling and to the sibling of the
\* prefix the two make
C26_Witness ==
    /\ pc = "ipset_trace" /\ pset.op = "insert"
    /\ pset.before = <<Host(1), Net(2, 1)>> /\ pset.arg = Host(0)
    /\ pset.nets = <<Net(0, 2)>>

\* C27: a set built from a vector of valid prefixes, in any order, with
\* duplicates, nested prefixes and siblings, is the set that inserting the
\* prefixes one by one into an empty set gives
C27_FromVecIsInsertEach ==
    (pc = "ipset_trace" /\ pset.op = "from") =>
        pset.nets = from_iter(<<>>, pset.arg)

\* a vector out of order whose prefixes merge twice
C27_Witness ==
    /\ pc = "ipset_trace" /\ pset.op = "from"
    /\ pset.arg = <<Net(2, 1), Host(1), Host(0)>>
    /\ pset.nets = <<Net(0, 2)>>

(***************************************************************************)
(* fileutil::update(path, data) on its own (fileutil.rs), next to a reader *)
(* of `path`.  A file is <<>> when absent, else <<content>>, the content a *)
(* sequence of chunks.  fu holds where update() is (at), the file at       *)
(* `path` and what it held before (old), the temporary files of the        *)
(* directory by name (tmps), the one update() created (mine), whether a    *)
(* name was already taken (retried), how much of data is written, what     *)
(* update() returned (ret), how the drop of the Temp went (cleanup) and    *)
(* what the reader read last (seen).                                       *)
(***************************************************************************)
\* the names rand::thread_rng may give the temporary file
TmpNames == {"t1", "t2"}

\* the data update() is called with, in the chunks write_all gets it out
NewData == <<"n1", "n2">>

\* what `path` may hold before: nothing, or an earlier document
OldFiles == {<<>>, <<<<"o1">>>>}

Absent == <<>>

InitFile ==
    /\ pc = "fileutil" /\ proc = 1 /\ exitCode = <<>> /\ clock = 0
    /\ refresh = 0
    /\ sources = <<>> /\ s = <<>> /\ step = "fetch1"
    /\ current = EmptyConfig
    /\ rnow = 0 /\ t_refresh = 0 /\ tnow = 0 /\ built = NoBuild /\ wake = 0
    /\ first = TRUE /\ examined = <<>> /\ log = <<>>
    /\ loaded = FALSE /\ lastPersist = "none" /\ prevInputs = <<>>
    /\ attempts = 0 /\ tried = <<>>
    /\ iface = EmptyConfig /\ stateFile = Missing /\ stateTmp = FALSE
    /\ cache = [n \in SourceSet |-> Missing]
    /\ upd = NoUpdate /\ mk = NoMake /\ lastDiff = NoDiff /\ pset = NoSet
    /\ env = [results |-> {}, fetch_time |-> 0, oversleep |-> 0,
              cache_writes |-> {}, restarts |-> 0]
    /\ \E old \in OldFiles, left \in SUBSET TmpNames :
          fu = [at |-> "new_in", path |-> old, old |-> old,
                tmps |-> [n \in TmpNames |-> IF n \in left THEN <<<<"x">>>> ELSE Absent],
                mine |-> <<>>, retried |-> FALSE, data |-> NewData, written |-> 0,
                ret |-> <<>>, cleanup |-> "none", seen |-> <<>>]

FileFrame ==
    UNCHANGED <<pc, proc, exitCode, clock, refresh, sources, s, step,
                current, iface, stateFile, stateTmp, cache, rnow, t_refresh,
                tnow, built, wake, first, examined, log, loaded, lastPersist,
                prevInputs, attempts, tried, upd, env, mk, lastDiff, pset>>

\* Drop for Temp: nothing for an empty path, else remove_file, which may fail
TempDrop(f, removed) ==
    IF f.mine = <<>> THEN [f EXCEPT !.cleanup = "not tried"]
    ELSE IF removed
    THEN [f EXCEPT !.tmps[f.mine[1]] = Absent, !.cleanup = "removed"]
    ELSE [f EXCEPT !.cleanup = "failed"]

\* Writer::new_in: one turn of its loop; a name that exists is tried again,
\* any other error is returned
FuNewIn ==
    /\ pc = "fileutil" /\ fu.at = "new_in"
    /\ \E i \in TmpNames, io \in {"ok", "err"} :
          fu' = IF fu.tmps[i] # Absent THEN [fu EXCEPT !.retried = TRUE]
                ELSE IF io = "err" THEN [fu EXCEPT !.at = "done", !.ret = <<"err">>]
                ELSE [fu EXCEPT !.tmps[i] = <<<<>>>>, !.mine = <<i>>, !.at = "write"]
    /\ FileFrame

\* write_all: one chunk is appended, or the write fails and the Writer is
\* dropped
FuWrite ==
    /\ pc = "fileutil" /\ fu.at = "write"
    /\ \E io \in {"ok", "err"}, removed \in BOOLEAN :
          fu' = IF io = "ok"
                THEN [fu EXCEPT !.tmps[fu.mine[1]] =
                                    <<Append(@[1], fu.data[fu.written + 1])>>,
                                !.written = @ + 1,
                                !.at = IF fu.written + 1 = Len(fu.data)
                                       THEN "sync" ELSE "write"]
                ELSE [TempDrop(fu, removed) EXCEPT !.at = "done", !.ret = <<"err">>]
    /\ FileFrame

\* Writer::sync_done: sync_data, and on an error the Writer is dropped
FuSync ==
    /\ pc = "fileutil" /\ fu.at = "sync"
    /\ \E io \in {"ok", "err"}, removed \in BOOLEAN :
          fu' = IF io = "ok" THEN [fu EXCEPT !.at = "rename"]
                ELSE [TempDrop(fu, removed) EXCEPT !.at = "done", !.ret = <<"err">>]
    /\ FileFrame

\* Temp::rename_to: leave() empties the path of the Temp, then fs::rename;
\* the Temp that is dropped afterwards has nothing to remove (fu.mine goes
\* on naming the file update() created)
rename_to(f, io, removed) ==
    LET left == [f EXCEPT !.mine = <<>>]
    IN  IF io = "ok"
        THEN [TempDrop(left, removed) EXCEPT
                 !.path = f.tmps[f.mine[1]], !.tmps[f.mine[1]] = Absent,
                 !.at = "done", !.ret = <<"ok">>, !.mine = f.mine]
        ELSE [TempDrop(left, removed) EXCEPT
                 !.at = "done", !.ret = <<"err">>, !.mine = f.mine]

FuRename ==
    /\ pc = "fileutil" /\ fu.at = "rename"
    /\ \E io \in {"ok", "err"}, removed \in BOOLEAN :
          fu' = rename_to(fu, io, removed)
    /\ FileFrame

\* fileutil::load(path) by another process, at any moment
FuLoad ==
    /\ pc = "fileutil"
    /\ fu' = [fu EXCEPT !.seen = <<fu.path>>]
    /\ FileFrame

NextFile == FuNewIn \/ FuWrite \/ FuSync \/ FuRename \/ FuLoad

SpecFile == InitFile /\ [][NextFile]_vars

\* C37, a removal that itself fails set aside: at every point of
\* update(path, data) and after it the file at `path` holds its complete
\* previous content or exactly `data`, and so does every read of it; when
\* update() returns an error the content at `path` is unchanged and the
\* temporary file update() created is gone
C37_AtomicUpdate ==
    pc = "fileutil" =>
        /\ fu.path \in {fu.old, <<fu.data>>}
        /\ fu.seen # <<>> => fu.seen[1] \in {fu.old, <<fu.data>>}
        /\ fu.ret = <<"ok">> => fu.path = <<fu.data>>
        /\ fu.ret = <<"err">> =>
              /\ fu.path = fu.old
              /\ fu.mine # <<>> =>
                    \/ fu.tmps[fu.mine[1]] = Absent
                    \/ fu.cleanup = "failed"

====
